---- MODULE Spec2Model ----
(***************************************************************************)
(* Market Data Gateway of the trading dashboard: the sliding-window rate   *)
(* limiter (utils/helpers createRateLimiter), the client gateway           *)
(* (EnhancedRealAPIService: cache store, retrying request, getStockData),  *)
(* the server's batch quote endpoint (POST /api/stocks/batch with its      *)
(* source loop and response cache) and the market-status classifiers.      *)
(*                                                                         *)
(* Each component has its own specification over the shared variables; a   *)
(* specification leaves the variables of the other components unchanged.   *)
(* Time is a discrete clock `now`.  Timers are ideal: a timer that is due  *)
(* fires before the clock advances.                                        *)
(***************************************************************************)
EXTENDS Integers, Sequences, FiniteSets, TLC

VARIABLES
  now,          \* Date.now(), in the time unit of the specification
  \* ---- rate limiter (createRateLimiter) ----
  maxCalls,     \* the limiter's maxCalls
  timeWindow,   \* the limiter's timeWindow
  calls,        \* the closure's `calls` array of the limiter the callers share
  lpc,          \* per caller: "idle" | "waiting" | "granted"
  wakeAt,       \* per caller: when its setTimeout(resolve, waitTime) fires
  invokedAt,    \* per caller: time of its invocation (-1: not yet)
  grantAt,      \* per caller: time its promise resolved (-1: not yet)
  \* ---- client gateway (EnhancedRealAPIService) ----
  cache,        \* this.cache: key -> [data, timestamp, duration]
  snapshot,     \* localStorage 'realApiCache': the saved copy of the cache
  lastKnown,    \* localStorage 'lastKnownStockData': NoValue or [data, timestamp]
  isOnline,     \* this.isOnline
  gpc,          \* per getStockData call: "idle" | "acquire" | "await" | "backoff" | "done"
  gsyms,        \* per call: its `symbols` argument
  gattempt,     \* per call: `attempt` of makeRateLimitedRequest
  gwake,        \* per call: when the backoff timer fires
  gresult,      \* per call: what the promise settled with
  gstat,        \* per call: what it did (requests sent, acquisitions, failures, ...)
  lastSet,      \* per key: the latest setCachedData(key, data, T) and its time
  obs,          \* the getCachedData(key) call made last, if after every set: key, time, value
  \* ---- server: POST /api/stocks/batch ----
  scache,       \* the response cache: req.originalUrl -> [data, timestamp]
  tokenSet,     \* API_KEYS.UPSTOX_ACCESS_TOKEN is configured
  instruments,  \* the symbols in upstoxInstruments
  bpc,          \* the request: "idle" | "fetch" | "done"
  breq,         \* req.body: [symbols, source]
  bidx,         \* position of currentSource in `sources`
  bresults,     \* results
  berrors,      \* errors
  bsuccessful,  \* successfulRequests
  bcalls,       \* the source invocations of the request, in order
  bresp,        \* the response sent
  \* ---- market status classifiers ----
  dayOfWeek,    \* indianTime.getDay(): 0 = Sunday .. 6 = Saturday
  hours,        \* indianTime.getHours()
  minutes,      \* indianTime.getMinutes()
  clientStatus, \* last result of calculateMarketStatusFallback ("none": not called)
  serverStatus, \* last status sent by GET /api/market/status ("none": not called)
  helperStatus, \* last status of the helper getMarketStatus ("none": not called)
  apiStatus,    \* last status of APIService.getMarketStatus ("none": not called)
  \* ---- getMarketStatus (client) ----
  mpc,          \* the call: "idle" | "await" | "done"
  mreqs,        \* network requests the getMarketStatus calls have issued
  mresult,      \* the status the last call returned ("none": no call returned)
  \* ---- provider adapters: one quote, from response to client ----
  qsource,      \* "upstox" | "yahoo"
  qsym,         \* the requested symbol
  qresp,        \* the provider's response for the symbol
  qquote,       \* the record the adapter pushed (NoQuote: none)
  qclient,      \* the record after the client's processStockData (NoQuote: none)
  \* ---- useAppData hook: the displayed stock list ----
  stocks,       \* the request whose result setStocks applied last (0: initial [])
  hpc,          \* per request: "idle" | "inflight" | "applied" | "failed"
  hkind,        \* per request: "none" | "load" | "search"
  hcontroller,  \* abortControllerRef.current: the load that created it (0: null)
  haborted,     \* the loads whose AbortController has been aborted
  hretryCount,  \* retryCountRef.current
  hretries,     \* pending retry timers (setTimeout(() => loadStocks(symbols, true))),
                \* each with its delay in ms and the isOnline of the closure that set it
  hisOnline,    \* the hook's isOnline state
  hcaptured,    \* per request: the isOnline its loadStocks closure captured
  \* ---- useAppData hook: the portfolio and executeTrade ----
  portfolio,        \* the portfolio state: availableCash, holdings (an array), transactions
  holdingObjs,      \* the holding objects ever created: symbol and quantity of each
  holdingArrays,    \* the holdings arrays ever created: the holding objects of each
  closurePortfolio, \* the portfolio object the current executeTrade closure captured
  storedPortfolio,  \* localStorage's tradingPortfolio, parsed (NoStored: the key is absent)
  tradeResult,      \* what the last executeTrade call returned, with the call's arguments
  \* ---- page reloads: the cache and its copy in localStorage ----
  pstat,        \* what the reloads and sweeps did: count, time, entries found saved, keys swept
  \* ---- client: getNewsData and getChartData ----
  gkind,        \* per call: "none" | "news" | "chart" (what a call that is not getStockData is)
  \* ---- server: GET /api/chart/:symbol ----
  cpc,          \* the request: "idle" | "yahoo" | "upstox" | "done"
  creq,         \* req.params.symbol
  cdata,        \* chartData: unset (null) or the points
  cresp,        \* the response sent
  \* ---- client: the WebSocket ----
  wsConns,      \* the WebSockets created, in order: "connecting" | "open" | "closing" | "closed"
  websocket,    \* this.websocket: the position of the socket in wsConns (0: null)
  wsReconnectAttempts, \* this.wsReconnectAttempts
  wsTimers,     \* the pending setTimeout(() => this.setupWebSocket(), delay)
  wsStat        \* closes since the last open; whether a setupWebSocket() call gave up

limiterVars == <<maxCalls, timeWindow, calls, lpc, wakeAt, invokedAt, grantAt>>
storeVars   == <<cache, snapshot, lastSet, obs>>
callVars    == <<gpc, gsyms, gattempt, gwake, gresult, gstat>>
gatewayVars == <<storeVars, lastKnown, isOnline, callVars>>
batchVars   == <<scache, tokenSet, instruments, bpc, breq, bidx, bresults, berrors,
                 bsuccessful, bcalls, bresp>>
marketVars  == <<dayOfWeek, hours, minutes, clientStatus, serverStatus, helperStatus,
                 apiStatus>>
statusVars  == <<mpc, mreqs, mresult>>
quoteVars   == <<qsource, qsym, qresp, qquote, qclient>>
tradeVars   == <<portfolio, holdingObjs, holdingArrays, closurePortfolio, storedPortfolio,
                 tradeResult>>
hookVars    == <<stocks, hpc, hkind, hcontroller, haborted, hretryCount, hretries,
                 hisOnline, hcaptured, tradeVars>>
persistVars == <<pstat>>
contentVars == <<gkind>>
chartVars   == <<cpc, creq, cdata, cresp>>
wsVars      == <<wsConns, websocket, wsReconnectAttempts, wsTimers, wsStat>>
laterVars   == <<persistVars, contentVars, chartVars, wsVars>>
restVars    == <<statusVars, quoteVars, hookVars, laterVars>>
vars == <<now, limiterVars, gatewayVars, batchVars, marketVars, restVars>>

\* ------------------------------------------------------------------------
\* Bounds of the model
\* ------------------------------------------------------------------------
NumCallers == 3      \* concurrent callers of one limiter
MaxCallsBound == 2   \* largest maxCalls tried
MaxWindow == 3       \* largest timeWindow tried
MaxTime == 6         \* the limiter's clock stops here
GwMaxTime == 6       \* the gateway's clock stops here (within a day)
StoreMaxTime == 4    \* the cache store's clock stops here
BatchMaxTime == 3    \* the server's clock stops here
MaxBatchLen == 2     \* longest of the short symbol lists of a batch request
NumGwCalls == 2      \* getStockData calls
MaxSymbols == 2      \* longest symbol list of a getStockData call
NumBlobs == 2        \* distinct payloads of direct cache writes
MaxTTL == 2          \* largest duration of a direct cache write
PersistStart == 2    \* the clock at the first page load (Date.now() is positive)
PersistMaxTime == 5  \* the clock of the reloading page stops here
MaxRestarts == 2     \* page reloads
MaxPoints == 2       \* longest series a chart provider returns
MaxArticles == 2     \* longest article list the news endpoint returns
ContentMaxTime == 1  \* the clock of the news and chart calls stops here
MaxConns == 6        \* WebSockets created
MaxStatusCalls == 2  \* getMarketStatus calls
MaxTrades == 4       \* executeTrade calls
NumLoads == 4        \* stock loads and searches of the hook

Callers == 1..NumCallers

\* ------------------------------------------------------------------------
\* Rate limiter: createRateLimiter(maxCalls, timeWindow)
\* ------------------------------------------------------------------------

\* while (calls.length && calls[0] <= now - timeWindow) calls.shift();
RECURSIVE DropExpired(_, _, _)
DropExpired(list, t, w) ==
  IF list # <<>> /\ Head(list) <= t - w
    THEN DropExpired(Tail(list), t, w)
    ELSE list

\* `const calls = []` of the limiter that the waiting branch creates:
\* createRateLimiter(maxCalls, timeWindow)() runs on a new, empty array.
RetryCalls(shared) == <<>>

\* A run that waits one time unit longer than the window requires.
LimiterRunLongWait(list, t, n, w) ==
  LET kept == DropExpired(list, t, w) IN
    IF Len(kept) >= n
      THEN [calls |-> kept, granted |-> FALSE, waitTime |-> kept[1] + w - t + 1]
      ELSE [calls |-> Append(kept, t), granted |-> TRUE, waitTime |-> 0]

\* A run that finds the window full whatever the array holds.
LimiterRunNeverGrants(list, t, n, w) ==
  [calls |-> list, granted |-> FALSE, waitTime |-> 0]

\* One run of the returned async function on the array `list` at time t:
\* the array afterwards, whether it returned true, and otherwise waitTime.
LimiterRun(list, t, n, w) ==
  LET kept == DropExpired(list, t, w) IN
    IF Len(kept) >= n
      THEN [calls |-> kept, granted |-> FALSE, waitTime |-> kept[1] + w - t]
      ELSE [calls |-> Append(kept, t), granted |-> TRUE, waitTime |-> 0]

LimiterInit ==
  /\ maxCalls \in 1..MaxCallsBound
  /\ timeWindow \in 1..MaxWindow
  /\ calls = <<>>
  /\ lpc = [c \in Callers |-> "idle"]
  /\ wakeAt = [c \in Callers |-> 0]
  /\ invokedAt = [c \in Callers |-> -1]
  /\ grantAt = [c \in Callers |-> -1]

\* A caller invokes the shared limiter: rateLimiter().
Invoke(c) ==
  /\ lpc[c] = "idle"
  /\ LET r == LimiterRun(calls, now, maxCalls, timeWindow) IN
       /\ calls' = r.calls
       /\ invokedAt' = [invokedAt EXCEPT ![c] = now]
       /\ IF r.granted
            THEN /\ lpc' = [lpc EXCEPT ![c] = "granted"]
                 /\ grantAt' = [grantAt EXCEPT ![c] = now]
                 /\ UNCHANGED wakeAt
            ELSE /\ lpc' = [lpc EXCEPT ![c] = "waiting"]
                 /\ wakeAt' = [wakeAt EXCEPT ![c] = now + r.waitTime]
                 /\ UNCHANGED grantAt
  /\ UNCHANGED <<now, maxCalls, timeWindow, gatewayVars, batchVars, marketVars, restVars>>

\* The caller's timer fires: `return createRateLimiter(maxCalls, timeWindow)()`,
\* a run on the array of a limiter created for this one call.  The shared array
\* is neither read nor written.
Wake(c) ==
  /\ lpc[c] = "waiting"
  /\ now >= wakeAt[c]
  /\ LET r == LimiterRun(RetryCalls(calls), now, maxCalls, timeWindow) IN
       IF r.granted
         THEN /\ lpc' = [lpc EXCEPT ![c] = "granted"]
              /\ grantAt' = [grantAt EXCEPT ![c] = now]
              /\ UNCHANGED wakeAt
         ELSE /\ wakeAt' = [wakeAt EXCEPT ![c] = now + r.waitTime]
              /\ UNCHANGED <<lpc, grantAt>>
  /\ UNCHANGED <<now, maxCalls, timeWindow, calls, invokedAt, gatewayVars, batchVars, marketVars, restVars>>

TimerDue == \E c \in Callers : lpc[c] = "waiting" /\ wakeAt[c] <= now

\* Time passes.  New invocations stop at MaxTime; the clock runs on while a
\* timer is pending, so that every setTimeout fires.
LimiterTick ==
  /\ now < MaxTime \/ \E c \in Callers : lpc[c] = "waiting"
  /\ ~TimerDue
  /\ now' = now + 1
  /\ UNCHANGED <<limiterVars, gatewayVars, batchVars, marketVars, restVars>>

\* ------------------------------------------------------------------------
\* Client gateway: cache store (getCachedData / setCachedData / cleanup)
\* ------------------------------------------------------------------------

\* The clock of the cache and gateway specifications counts minutes.
MsPerTick == 60 * 1000
MsToTicks(ms) == ms \div MsPerTick

\* CACHE_DURATIONS.STOCK_DATA
CACHE_STOCK_DATA == 5 * 60 * 1000
\* the age limit of 'lastKnownStockData' in getStockData's catch block
LAST_KNOWN_MAX_AGE == 24 * 60 * 60 * 1000
\* makeRateLimitedRequest(apiType, requestFn, retries = 3)
DefaultRetries == 3

Null == [kind |-> "null"]
EmptyMap == [k \in {} |-> Null]

MapPut(m, k, v) == [x \in DOMAIN m \cup {k} |-> IF x = k THEN v ELSE m[x]]
MapDelete(m, k) == [x \in DOMAIN m \ {k} |-> m[x]]

\* The freshness test without the age check.
CacheFreshWithoutAge(store, key, t) == key \in DOMAIN store

\* cached && Date.now() - cached.timestamp < cached.duration
CacheFresh(store, key, t) ==
  key \in DOMAIN store /\ t - store[key].timestamp < store[key].duration

\* the value getCachedData(key) returns
GetCachedValue(store, key, t) ==
  IF CacheFresh(store, key, t) THEN store[key].data ELSE Null

\* the map after getCachedData(key): a miss runs this.cache.delete(key)
CacheAfterGet(store, key, t) ==
  IF CacheFresh(store, key, t) THEN store ELSE MapDelete(store, key)

\* this.cache.set(key, {data, timestamp: Date.now(), duration})
CacheAfterSet(store, key, data, t, duration) ==
  MapPut(store, key, [data |-> data, timestamp |-> t, duration |-> duration])

\* The sweep that also deletes the entries whose age equals their duration.
CacheAfterCleanupEager(store, t) ==
  LET keep == {k \in DOMAIN store : t - store[k].timestamp < store[k].duration}
  IN [k \in keep |-> store[k]]

\* cleanup(): delete the entries with now - value.timestamp > value.duration
CacheAfterCleanup(store, t) ==
  LET keep == {k \in DOMAIN store : ~(t - store[k].timestamp > store[k].duration)}
  IN [k \in keep |-> store[k]]

\* getCachedData(key), with the record of the call
DoGetCachedData(key) ==
  /\ cache' = CacheAfterGet(cache, key, now)
  /\ obs' = [key |-> key, time |-> now, value |-> GetCachedValue(cache, key, now)]

\* setCachedData(key, data, duration): the entry is written and, when
\* Math.random() < 0.1, the whole map is saved to localStorage.
DoSetCachedData(key, data, duration) ==
  /\ cache' = CacheAfterSet(cache, key, data, now, duration)
  /\ lastSet' = MapPut(lastSet, key, [data |-> data, time |-> now, duration |-> duration])
  /\ snapshot' \in {snapshot, cache'}

\* Direct calls of the two cache methods, on a key getStockData does not use.
StoreKeys == {"news_TCS"}
Blobs == {[kind |-> "blob", id |-> i] : i \in 1..NumBlobs}

SetCachedData(key, data, duration) ==
  /\ DoSetCachedData(key, data, duration)
  /\ obs' = Null
  /\ UNCHANGED <<now, lastKnown, isOnline, callVars, limiterVars, batchVars, marketVars, restVars>>

GetCachedData(key) ==
  /\ DoGetCachedData(key)
  /\ UNCHANGED <<now, snapshot, lastSet, lastKnown, isOnline, callVars, limiterVars, batchVars, marketVars, restVars>>

\* saveCacheToStorage(): every entry of the map is copied into an object that
\* storage.set writes with JSON.stringify; an entry is {data, timestamp,
\* duration} of JSON data and two finite numbers, which the text keeps.
SavedCache(store) ==
  [k \in DOMAIN store |->
     [data |-> store[k].data, timestamp |-> store[k].timestamp, duration |-> store[k].duration]]

\* cleanup(): the sweep, then saveCacheToStorage()
DoCleanup ==
  /\ cache' = CacheAfterCleanup(cache, now)
  /\ snapshot' = SavedCache(cache')

Cleanup ==
  /\ DoCleanup
  /\ UNCHANGED <<now, lastSet, obs, lastKnown, isOnline, callVars, limiterVars, batchVars, marketVars, restVars>>

\* Loading with every saved entry kept.
LoadedCacheAll(stored, t) == stored

\* Loading with the entries stamped anew.
LoadedCacheRestamped(stored, t) ==
  [k \in {x \in DOMAIN stored :
            stored[x].timestamp # 0 /\ t - stored[x].timestamp < stored[x].duration}
     |-> [stored[k] EXCEPT !.timestamp = t]]

\* loadCacheFromStorage(), on the empty map of the constructor: an entry of the
\* saved object is set when `value.timestamp && Date.now() - value.timestamp <
\* value.duration`.  A saved entry without timestamp is written timestamp 0:
\* both are falsy.
LoadedCache(stored, t) ==
  [k \in {x \in DOMAIN stored :
            stored[x].timestamp # 0 /\ t - stored[x].timestamp < stored[x].duration}
     |-> stored[k]]

NoRestart == [restarts |-> 0, at |-> 0, restored |-> EmptyMap, swept |-> {}]

\* the latest writes that the saved copy holds as they were made
SavedWrites(stored, sets) ==
  [k \in {x \in DOMAIN sets \cap DOMAIN stored :
            /\ stored[x].data = sets[x].data
            /\ stored[x].timestamp = sets[x].time
            /\ stored[x].duration = sets[x].duration}
     |-> sets[k]]

\* The page is loaded again: the constructor creates an empty map and runs
\* loadCacheFromStorage().
Restart ==
  /\ pstat.restarts < MaxRestarts
  /\ cache' = LoadedCache(snapshot, now)
  /\ obs' = Null
  /\ pstat' = [pstat EXCEPT !.restarts = @ + 1, !.at = now,
                            !.restored = SavedWrites(snapshot, lastSet)]
  /\ UNCHANGED <<now, snapshot, lastSet, lastKnown, isOnline, callVars, limiterVars,
                 batchVars, marketVars, statusVars, quoteVars, hookVars,
                 contentVars, chartVars, wsVars>>

\* cleanup() of the reloading page (the five-minute interval, beforeunload)
PersistCleanup ==
  /\ DoCleanup
  /\ pstat' = [pstat EXCEPT !.swept = @ \cup (DOMAIN cache \ DOMAIN cache')]
  /\ UNCHANGED <<now, lastSet, obs, lastKnown, isOnline, callVars, limiterVars,
                 batchVars, marketVars, statusVars, quoteVars, hookVars,
                 contentVars, chartVars, wsVars>>

PersistTick ==
  /\ now < PersistMaxTime
  /\ now' = now + 1
  /\ UNCHANGED <<gatewayVars, limiterVars, batchVars, marketVars, restVars>>

\* What localStorage may hold when the page is first loaded: under each key
\* nothing, or an entry saved at an earlier time, or one without timestamp.
PersistKeys == StoreKeys \cup {"chart_TCS_1d_1mo"}
StoredEntries ==
  {[data |-> [kind |-> "blob", id |-> 1], timestamp |-> ts, duration |-> d] :
     ts \in 0..(PersistStart - 1), d \in 1..MaxTTL}
StoredMaps ==
  UNION {[keys -> StoredEntries] : keys \in SUBSET PersistKeys}

\* ------------------------------------------------------------------------
\* Client gateway: makeRateLimitedRequest and getStockData
\* ------------------------------------------------------------------------

GwCalls == 1..NumGwCalls
Symbols == {"TCS", "INFY"}
SymbolLists == UNION {[1..n -> Symbols] : n \in 1..MaxSymbols}
\* the symbol lists of the first call start with the first stock of the dashboard
FirstLists == {l \in SymbolLists : l[1] = "TCS"}

NoResult == [kind |-> "none", via |-> "none", data |-> Null, at |-> 0]
NoStat == [reqs |-> 0, acqs |-> 0, fails |-> 0, miss |-> FALSE, recent |-> {}, causes |-> <<>>]

\* symbols.join(sep)
RECURSIVE Join(_, _)
Join(list, sep) ==
  IF list = <<>> THEN ""
  ELSE IF Len(list) = 1 THEN list[1]
  ELSE list[1] \o sep \o Join(Tail(list), sep)

\* const cacheKey = `stocks_${symbols.join('_')}`;
CacheKey(symbols) == "stocks_" \o Join(symbols, "_")

\* The delay without its upper limit.
BackoffDelayUncapped(attempt) == 1000 * 2^(attempt - 1)

\* const delay = Math.min(1000 * Math.pow(2, attempt - 1), 10000);
BackoffDelayMs(attempt) ==
  IF 1000 * 2^(attempt - 1) < 10000 THEN 1000 * 2^(attempt - 1) ELSE 10000

\* The quote lists a successful batch response can carry for a request: the
\* backend answers with success when it has a quote for at least one symbol.
ResponseQuotes(symbols) == {symbols, <<symbols[1]>>}

\* processStockData(stockData): the enhanced copy of every stock
ProcessStockData(data) ==
  [kind |-> "quotes", syms |-> data.syms, stamp |-> data.stamp, enhanced |-> TRUE]

\* fallbackCache && Date.now() - fallbackCache.timestamp < 24 * 60 * 60 * 1000
LastKnownUsable(stored, t) ==
  stored # Null /\ t - stored.timestamp < MsToTicks(LAST_KNOWN_MAX_AGE)

Settle(c, kind, via, data) ==
  /\ gpc' = [gpc EXCEPT ![c] = "done"]
  /\ gresult' = [gresult EXCEPT ![c] = [kind |-> kind, via |-> via, data |-> data, at |-> now]]

\* getStockData(symbols) up to its first await: the cache lookup, the online
\* check and the invocation of the 'backend' rate limiter.
GetStockData(c, symbols) ==
  /\ gpc[c] = "idle"
  /\ \A d \in GwCalls : d < c => gpc[d] # "idle"
  /\ gsyms' = [gsyms EXCEPT ![c] = symbols]
  /\ cache' = CacheAfterGet(cache, CacheKey(symbols), now)
  /\ LET cached == GetCachedValue(cache, CacheKey(symbols), now)
         \* the calls that settled before this one started, less than the
         \* stock TTL ago
         recent == {d \in GwCalls : gpc[d] = "done" /\
                                     now - gresult[d].at < MsToTicks(CACHE_STOCK_DATA)}
     IN IF cached # Null
          THEN /\ Settle(c, "data", "cache", cached)
               /\ gstat' = [gstat EXCEPT ![c].recent = recent]
          ELSE IF ~isOnline
            THEN /\ Settle(c, "error", "offline", Null)
                 /\ gstat' = [gstat EXCEPT ![c].recent = recent, ![c].miss = TRUE]
            ELSE /\ gpc' = [gpc EXCEPT ![c] = "acquire"]
                 /\ gstat' = [gstat EXCEPT ![c].recent = recent, ![c].miss = TRUE, ![c].acqs = @ + 1]
                 /\ UNCHANGED gresult
  /\ UNCHANGED <<now, snapshot, lastSet, obs, lastKnown, isOnline, gattempt, gwake,
                 limiterVars, batchVars, marketVars, restVars>>

\* `await rateLimiter()` resolves; attempt 1 calls requestFn(), which sends the
\* POST /stocks/batch request.
SendFirst(c) ==
  /\ gpc[c] = "acquire"
  /\ gpc' = [gpc EXCEPT ![c] = "await"]
  /\ gattempt' = [gattempt EXCEPT ![c] = 1]
  /\ gstat' = [gstat EXCEPT ![c].reqs = @ + 1]
  /\ UNCHANGED <<now, storeVars, lastKnown, isOnline, gsyms, gresult, gwake,
                 limiterVars, batchVars, marketVars, restVars>>

\* The request succeeds with quotes: processStockData stores the fallback copy,
\* setCachedData caches the result and the call resolves with it.
ResponseOk(c) ==
  /\ gpc[c] = "await"
  /\ \E quoted \in ResponseQuotes(gsyms[c]) :
       LET processed == ProcessStockData([syms |-> quoted, stamp |-> now]) IN
         /\ lastKnown' = [data |-> processed, timestamp |-> now]
         /\ cache' = CacheAfterSet(cache, CacheKey(gsyms[c]), processed, now,
                                   MsToTicks(CACHE_STOCK_DATA))
         /\ snapshot' \in {snapshot, cache'}
         /\ Settle(c, "data", "network", processed)
  /\ UNCHANGED <<now, lastSet, obs, isOnline, gsyms, gattempt, gwake, gstat,
                 limiterVars, batchVars, marketVars, restVars>>

\* The request fails (network error, abort after the timeout, error status, or a
\* response without data).  Before the last attempt the call backs off; after it
\* the catch block of getStockData answers from 'lastKnownStockData' or throws.
ResponseFail(c) ==
  /\ gpc[c] = "await"
  /\ gstat' = [gstat EXCEPT ![c].fails = @ + 1]
  /\ IF gattempt[c] = DefaultRetries
       THEN /\ IF LastKnownUsable(lastKnown, now)
                 THEN Settle(c, "data", "fallback", lastKnown.data)
                 ELSE Settle(c, "error", "failed", Null)
            /\ UNCHANGED gwake
       ELSE /\ gpc' = [gpc EXCEPT ![c] = "backoff"]
            /\ gwake' = [gwake EXCEPT ![c] = now + MsToTicks(BackoffDelayMs(gattempt[c]))]
            /\ UNCHANGED gresult
  /\ UNCHANGED <<now, storeVars, lastKnown, isOnline, gsyms, gattempt,
                 limiterVars, batchVars, marketVars, restVars>>

\* The backoff timer fires: the loop's next attempt calls requestFn() again.
Retry(c) ==
  /\ gpc[c] = "backoff"
  /\ now >= gwake[c]
  /\ gpc' = [gpc EXCEPT ![c] = "await"]
  /\ gattempt' = [gattempt EXCEPT ![c] = @ + 1]
  /\ gwake' = [gwake EXCEPT ![c] = 0]
  /\ gstat' = [gstat EXCEPT ![c].reqs = @ + 1]
  /\ UNCHANGED <<now, storeVars, lastKnown, isOnline, gsyms, gresult,
                 limiterVars, batchVars, marketVars, restVars>>

GatewayTimerDue == \E c \in GwCalls : gpc[c] = "backoff" /\ gwake[c] <= now

GatewayTick ==
  /\ now % MsToTicks(LAST_KNOWN_MAX_AGE) < GwMaxTime
  /\ ~GatewayTimerDue
  /\ now' = now + 1
  /\ UNCHANGED <<gatewayVars, limiterVars, batchVars, marketVars, restVars>>

\* A day passes while no call is in flight.
GatewayDayPasses ==
  /\ now = GwMaxTime
  /\ \A c \in GwCalls : gpc[c] \in {"idle", "done"}
  /\ now' = now + MsToTicks(LAST_KNOWN_MAX_AGE)
  /\ UNCHANGED <<gatewayVars, limiterVars, batchVars, marketVars, restVars>>

StoreTick ==
  /\ now < StoreMaxTime
  /\ now' = now + 1
  /\ UNCHANGED <<gatewayVars, limiterVars, batchVars, marketVars, restVars>>

\* ------------------------------------------------------------------------
\* Server: the batch quote endpoint, POST /api/stocks/batch
\* ------------------------------------------------------------------------

\* the server's CACHE_DURATIONS.STOCK_DATA
SERVER_CACHE_STOCK_DATA == 2 * 60 * 1000
\* symbols.slice(0, 10) in fetchFromUpstox and fetchFromYahoo
SourceSliceLimit == 10
\* if (symbols.length > 20) return res.status(400)
MaxRequestSymbols == 20

BatchUrl == "/api/stocks/batch"
BSymbols == {"TCS", "INFY", "SBIN"}

Repeat(x, n) == [i \in 1..n |-> x]
SeqRange(list) == {list[i] : i \in 1..Len(list)}

\* The request bodies tried: every short symbol list, one list that is longer
\* than a source's slice, the empty list and a list above the request limit.
ShortLists == UNION {[1..n -> BSymbols] : n \in 1..MaxBatchLen}
LongList == <<"TCS">> \o Repeat("INFY", SourceSliceLimit) \o <<"SBIN">>
TooLongList == Repeat("TCS", MaxRequestSymbols + 1)
RequestLists == ShortLists \cup {LongList, TooLongList, <<>>}
RequestSources == {"auto", "upstox", "yahoo", "nse"}

NoResponse == [status |-> 0, data |-> <<>>, errors |-> <<>>, cached |-> FALSE]
NoRequest == [symbols |-> <<>>, source |-> "auto"]

\* const sources = source === 'auto' ? ['upstox', 'yahoo'] : [source];
Sources(source) == IF source = "auto" THEN <<"upstox", "yahoo">> ELSE <<source>>

\* symbols.filter(symbol => !results.some(result => result.symbol === symbol))
RemainingSymbols(symbols, results) ==
  SelectSeq(symbols, LAMBDA sym : ~\E i \in 1..Len(results) : results[i].symbol = sym)

\* The loop of fetchFromUpstox / fetchFromYahoo: for the first 10 symbols, in
\* order, one quote for each symbol in `good`; a symbol that fails is skipped.
RECURSIVE QuotesOf(_, _, _)
QuotesOf(list, good, label) ==
  IF list = <<>> THEN <<>>
  ELSE (IF Head(list) \in good
          THEN <<[symbol |-> Head(list), source |-> label]>>
          ELSE <<>>) \o QuotesOf(Tail(list), good, label)

Slice(list, n) == SubSeq(list, 1, IF Len(list) < n THEN Len(list) ELSE n)

\* fetchFromUpstox(symbols), the token being configured: a quote for the symbols
\* that have an instrument and for which the quote request succeeds
FetchFromUpstox(symbols, known, healthy) ==
  QuotesOf(Slice(symbols, SourceSliceLimit), known \cap healthy, "Upstox")

\* fetchFromYahoo(symbols): a quote for the symbols whose response has a
\* regularMarketPrice
FetchFromYahoo(symbols, healthy) ==
  QuotesOf(Slice(symbols, SourceSliceLimit), healthy, "Yahoo Finance")

\* The catch block of the source loop without its errors.push.
ForgetFailure(errors, source, remaining) == errors

\* errors.push({source: currentSource, error: error.message, symbols: remainingSymbols})
RecordFailure(errors, source, remaining) ==
  Append(errors, [source |-> source, symbols |-> remaining])

\* The source loop without its two break statements.
NeverBreaks(symbols, results, successful) == FALSE

\* if (successfulRequests >= symbols.length) break;
\* if (remainingSymbols.length === 0) break;
LoopBreaks(symbols, results, successful) ==
  \/ successful >= Len(symbols)
  \/ RemainingSymbols(symbols, results) = <<>>

\* The source loop from the head of iteration idx up to its next await, or to
\* its end: an unknown source throws inside the try block and is recorded.
RECURSIVE RunLoop(_, _, _, _, _)
RunLoop(req, idx, results, errors, successful) ==
  LET sources == Sources(req.source) IN
    IF idx > Len(sources) \/ LoopBreaks(req.symbols, results, successful)
      THEN [next |-> "respond", idx |-> idx, errors |-> errors]
    ELSE IF sources[idx] \in {"upstox", "yahoo"}
      THEN [next |-> "fetch", idx |-> idx, errors |-> errors]
    ELSE RunLoop(req, idx + 1, results,
                 RecordFailure(errors, sources[idx], RemainingSymbols(req.symbols, results)),
                 successful)

\* const enhancedResults = results.map(stock => ({...stock, lastUpdated, ...}))
Enhance(results, t) ==
  [i \in 1..Len(results) |->
     [symbol |-> results[i].symbol, source |-> results[i].source, lastUpdated |-> t]]

\* The response after the loop: 503 when results is empty, else 200 with the data
LoopResponse(results, errors, t) ==
  IF Len(results) = 0
    THEN [status |-> 503, data |-> <<>>, errors |-> errors, cached |-> FALSE]
    ELSE [status |-> 200, data |-> Enhance(results, t), errors |-> errors, cached |-> FALSE]

\* cacheMiddleware: cached && Date.now() - cached.timestamp < duration
ServerCacheHit(store, key, t) ==
  key \in DOMAIN store /\ t - store[key].timestamp < MsToTicks(SERVER_CACHE_STOCK_DATA)

\* The patched res.json storing every response.
ServerCacheAlways(store, key, resp, t) ==
  MapPut(store, key, [data |-> resp, timestamp |-> t])

\* the patched res.json: a response with statusCode 200 is stored under the key
ServerCacheAfter(store, key, resp, t) ==
  IF resp.status = 200 THEN MapPut(store, key, [data |-> resp, timestamp |-> t]) ELSE store

\* Continue the source loop at iteration idx: either the next source is
\* invoked (and the handler awaits it) or the response is sent.
Continue(req, idx, results, errors, successful, log) ==
  LET run == RunLoop(req, idx, results, errors, successful) IN
    /\ bidx' = run.idx
    /\ bresults' = results
    /\ berrors' = run.errors
    /\ bsuccessful' = successful
    /\ IF run.next = "fetch"
         THEN /\ bpc' = "fetch"
              /\ bcalls' = Append(log,
                     [source |-> Sources(req.source)[run.idx],
                      symbols |-> RemainingSymbols(req.symbols, results),
                      quoted |-> {results[i].symbol : i \in 1..Len(results)},
                      state |-> "running", healthy |-> {}, asked |-> {}])
              /\ UNCHANGED <<bresp, scache>>
         ELSE /\ bpc' = "done"
              /\ bresp' = LoopResponse(results, run.errors, now)
              /\ scache' = ServerCacheAfter(scache, BatchUrl, bresp', now)
              /\ bcalls' = log

\* A request arrives: the cache middleware, the validation of the body and the
\* source loop up to the first source invocation.  `cached` of the response
\* record tells whether the middleware answered.
BatchRequest(req) ==
  /\ bpc = "idle"
  /\ breq' = req
  /\ IF ServerCacheHit(scache, BatchUrl, now)
       THEN /\ bpc' = "done"
            /\ bresp' = [scache[BatchUrl].data EXCEPT !.cached = TRUE]
            /\ UNCHANGED <<scache, bidx, bresults, berrors, bsuccessful, bcalls>>
       ELSE IF Len(req.symbols) = 0 \/ Len(req.symbols) > MaxRequestSymbols
         THEN /\ bpc' = "done"
              /\ bresp' = [status |-> 400, data |-> <<>>, errors |-> <<>>, cached |-> FALSE]
              /\ UNCHANGED <<scache, bidx, bresults, berrors, bsuccessful, bcalls>>
         ELSE Continue(req, 1, <<>>, <<>>, 0, <<>>)
  /\ UNCHANGED <<now, tokenSet, instruments, limiterVars, gatewayVars, marketVars, restVars>>

LastCall == bcalls[Len(bcalls)]
\* The record of the call that has settled: how it ended, the symbols whose
\* upstream requests would succeed, and the symbols its loop went through.
SetLastCall(state, healthy) ==
  [bcalls EXCEPT ![Len(bcalls)].state = state, ![Len(bcalls)].healthy = healthy,
                 ![Len(bcalls)].asked =
                    IF state = "returned"
                      THEN SeqRange(Slice(LastCall.symbols, SourceSliceLimit))
                      ELSE {}]

\* The awaited source settles.  fetchFromUpstox throws when the access token is
\* missing; otherwise the source returns the quotes of the symbols whose
\* upstream requests succeeded (`healthy`), and the loop goes on.
SourceSettles(healthy) ==
  /\ bpc = "fetch"
  /\ IF LastCall.source = "upstox" /\ ~tokenSet
       THEN Continue(breq, bidx + 1, bresults,
                     RecordFailure(berrors, LastCall.source, LastCall.symbols),
                     bsuccessful, SetLastCall("threw", {}))
       ELSE LET sourceResults ==
                  IF LastCall.source = "upstox"
                    THEN FetchFromUpstox(LastCall.symbols, instruments, healthy)
                    ELSE FetchFromYahoo(LastCall.symbols, healthy)
            IN Continue(breq, bidx + 1, bresults \o sourceResults, berrors,
                        bsuccessful + Len(sourceResults),
                        SetLastCall("returned", healthy))
  /\ UNCHANGED <<now, breq, tokenSet, instruments, limiterVars, gatewayVars, marketVars, restVars>>

BatchTick ==
  /\ now < BatchMaxTime
  /\ now' = now + 1
  /\ UNCHANGED <<batchVars, limiterVars, gatewayVars, marketVars, restVars>>

\* ------------------------------------------------------------------------
\* Market status classifiers
\* ------------------------------------------------------------------------

\* const currentTime = hours * 100 + minutes;
CurrentTime(h, m) == h * 100 + m

\* The classifier with the opening boundary excluded (> instead of >=).
MarketStatusOpenExclusive(d, t) ==
  IF d = 0 \/ d = 6 THEN "CLOSED"
  ELSE IF t > 915 /\ t <= 1530 THEN "OPEN"
  ELSE IF t < 915 THEN "PRE_MARKET"
  ELSE "CLOSED"

\* EnhancedRealAPIService.calculateMarketStatusFallback
CalculateMarketStatusFallback(d, t) ==
  IF d = 0 \/ d = 6 THEN "CLOSED"
  ELSE IF t >= 915 /\ t <= 1530 THEN "OPEN"
  ELSE IF t < 915 THEN "PRE_MARKET"
  ELSE "CLOSED"

\* GET /api/market/status: status starts as 'CLOSED' and each branch assigns it
ServerMarketStatus(d, t) ==
  LET initial == "CLOSED" IN
    IF d = 0 \/ d = 6 THEN "CLOSED"
    ELSE IF t >= 915 /\ t <= 1530 THEN "OPEN"
    ELSE IF t < 915 THEN "PRE_MARKET"
    ELSE initial

\* The helper with the hours after the close named AFTER_HOURS.
HelperMarketStatusAfterHours(d, t) ==
  IF d = 0 \/ d = 6 THEN "CLOSED"
  ELSE IF t >= 915 /\ t <= 1530 THEN "OPEN"
  ELSE IF t < 915 THEN "PRE_MARKET"
  ELSE "AFTER_HOURS"

\* getMarketStatus of the helpers: marketOpen = 915, marketClose = 1530, the
\* statuses are those of MARKET_STATUS
HelperMarketStatus(d, t) ==
  LET marketOpen == 915
      marketClose == 1530
  IN  IF d = 0 \/ d = 6 THEN "CLOSED"
      ELSE IF t >= marketOpen /\ t <= marketClose THEN "OPEN"
      ELSE IF t < marketOpen THEN "PRE_MARKET"
      ELSE "CLOSED"

\* APIService.getMarketStatus: status starts as 'CLOSED'; the chain of ifs has
\* no final else
ApiMarketStatus(d, t) ==
  LET initial == "CLOSED" IN
    IF d = 0 \/ d = 6 THEN "CLOSED"
    ELSE IF t >= 915 /\ t <= 1530 THEN "OPEN"
    ELSE IF t < 915 THEN "PRE_MARKET"
    ELSE initial

MarketInit ==
  /\ dayOfWeek \in 0..6
  /\ hours \in 0..23
  /\ minutes \in 0..59
  /\ clientStatus = "none"
  /\ serverStatus = "none"
  /\ helperStatus = "none"
  /\ apiStatus = "none"

ClientClassify ==
  /\ clientStatus' = CalculateMarketStatusFallback(dayOfWeek, CurrentTime(hours, minutes))
  /\ UNCHANGED <<now, limiterVars, gatewayVars, batchVars, dayOfWeek, hours, minutes, serverStatus,
                 helperStatus, apiStatus, restVars>>

HelperClassify ==
  /\ helperStatus' = HelperMarketStatus(dayOfWeek, CurrentTime(hours, minutes))
  /\ UNCHANGED <<now, limiterVars, gatewayVars, batchVars, dayOfWeek, hours, minutes, clientStatus,
                 serverStatus, apiStatus, restVars>>

ApiClassify ==
  /\ apiStatus' = ApiMarketStatus(dayOfWeek, CurrentTime(hours, minutes))
  /\ UNCHANGED <<now, limiterVars, gatewayVars, batchVars, dayOfWeek, hours, minutes, clientStatus,
                 serverStatus, helperStatus, restVars>>

ServerClassify ==
  /\ serverStatus' = ServerMarketStatus(dayOfWeek, CurrentTime(hours, minutes))
  /\ UNCHANGED <<now, limiterVars, gatewayVars, batchVars, dayOfWeek, hours, minutes, clientStatus,
                 helperStatus, apiStatus, restVars>>

\* getMarketStatus() up to its await: fetch(`${this.baseURL}/market/status`)
GetMarketStatus ==
  /\ mpc \in {"idle", "done"}
  /\ mreqs < MaxStatusCalls
  /\ mpc' = "await"
  /\ mreqs' = mreqs + 1
  /\ UNCHANGED <<now, limiterVars, gatewayVars, batchVars, marketVars, mresult, quoteVars, hookVars, laterVars>>

\* The server answers (response.ok): the call returns the server's status.
StatusResponseOk ==
  /\ mpc = "await"
  /\ serverStatus' = ServerMarketStatus(dayOfWeek, CurrentTime(hours, minutes))
  /\ mresult' = serverStatus'
  /\ mpc' = "done"
  /\ UNCHANGED <<now, limiterVars, gatewayVars, batchVars, dayOfWeek, hours, minutes,
                 clientStatus, helperStatus, apiStatus, mreqs, quoteVars, hookVars, laterVars>>

\* The request fails, is aborted after 5 s or is answered with an error status:
\* the call returns calculateMarketStatusFallback().
StatusResponseFail ==
  /\ mpc = "await"
  /\ clientStatus' = CalculateMarketStatusFallback(dayOfWeek, CurrentTime(hours, minutes))
  /\ mresult' = clientStatus'
  /\ mpc' = "done"
  /\ UNCHANGED <<now, limiterVars, gatewayVars, batchVars, dayOfWeek, hours, minutes,
                 serverStatus, helperStatus, apiStatus, mreqs, quoteVars, hookVars, laterVars>>

\* ------------------------------------------------------------------------
\* Provider adapters: the quote record built from one provider response
\* ------------------------------------------------------------------------
\* A number of a response or of a quote is <<v>>; <<>> is a field that is
\* missing (undefined) or a value that is NaN.  Prices and changes count
\* hundredths of a rupee, changePercent counts hundredths of a percent, so that
\* Math.round(x * 100) / 100 of a finite x is x itself.

Missing == <<>>
NaN == <<>>
Zero == <<0>>

\* !x for a number: undefined, NaN and 0 are falsy
Falsy(x) == x = <<>> \/ x[1] = 0
\* a || b
OrElse(a, b) == IF Falsy(a) THEN b ELSE a
\* a - b
Minus(a, b) == IF a = <<>> \/ b = <<>> THEN NaN ELSE <<a[1] - b[1]>>
\* Math.round(a / b), b > 0: the nearest integer, halves towards +Infinity
RoundDiv(a, b) == (2 * a + b) \div (2 * b)
\* Math.round(((a - b) / b) * 100 * 100) / 100 for b > 0, in hundredths of a
\* percent
PercentOf(a, b) ==
  IF a = <<>> \/ b = <<>> THEN NaN
  ELSE <<RoundDiv((a[1] - b[1]) * 10000, b[1])>>

Pending == [kind |-> "pending"]
NoQuote == [kind |-> "none"]

\* convertToYahooSymbol(symbol): the map and its default both append '.NS'
ConvertToYahooSymbol(sym) == sym \o ".NS"

\* fetchFromUpstox, one symbol: r.ok is `response.status === 'success' &&
\* response.data`; r.price is data.last_price, r.previous is data.previous_close
UpstoxQuote(sym, r) ==
  IF r.ok
    THEN [kind |-> "quote", symbol |-> sym, source |-> "Upstox",
          price |-> OrElse(r.price, Zero),
          change |-> OrElse(Minus(r.price, r.previous), Zero),
          changePercent |-> IF ~Falsy(r.previous) THEN PercentOf(r.price, r.previous) ELSE Zero,
          previousClose |-> OrElse(r.previous, OrElse(r.price, Zero))]
    ELSE NoQuote

\* fetchFromYahoo, one symbol: r.ok is `quoteData` being there; the fields are
\* regularMarketPrice, regularMarketChange, regularMarketChangePercent and
\* regularMarketPreviousClose
YahooQuote(sym, r) ==
  IF r.ok /\ ~Falsy(r.price)
    THEN [kind |-> "quote", symbol |-> sym, source |-> "Yahoo Finance",
          price |-> OrElse(r.price, Zero),
          change |-> OrElse(r.change, Zero),
          changePercent |-> OrElse(r.changePercent, Zero),
          previousClose |-> OrElse(r.previous, OrElse(r.price, Zero))]
    ELSE NoQuote

\* JSON.stringify writes NaN as null, and Math.round(null * 100) / 100 is 0
ClientNumber(x) == IF x = NaN THEN Zero ELSE x

\* processStockData, one stock: ...stock with the numbers rounded again
ProcessQuote(q) ==
  [q EXCEPT !.price = ClientNumber(@), !.change = ClientNumber(@),
            !.changePercent = ClientNumber(@), !.previousClose = ClientNumber(@)]

QuoteSymbols == {"TCS", "ZOMATO"}
PriceValues == {Missing, <<0>>, <<100>>, <<150>>}
ChangeValues == {Missing, <<0>>, <<50>>}
PercentValues == {Missing, <<0>>, <<5000>>}

\* the responses a provider can give for the symbol
UpstoxResponses(sym) ==
  [ok : BOOLEAN, symbol : {"NSE_EQ|" \o sym}, price : PriceValues, previous : PriceValues,
   change : {Missing}, changePercent : {Missing}]
YahooResponses(sym) ==
  [ok : BOOLEAN, symbol : {ConvertToYahooSymbol(sym)}, price : PriceValues,
   previous : PriceValues, change : ChangeValues, changePercent : PercentValues]

QuoteInit ==
  /\ qsource \in {"upstox", "yahoo"}
  /\ qsym \in QuoteSymbols
  /\ qresp \in (IF qsource = "upstox" THEN UpstoxResponses(qsym) ELSE YahooResponses(qsym))
  /\ qquote = Pending
  /\ qclient = Pending

QuoteIdle ==
  /\ qsource = "upstox" /\ qsym = "TCS"
  /\ qresp = [ok |-> FALSE, symbol |-> "NSE_EQ|TCS", price |-> Missing, previous |-> Missing,
              change |-> Missing, changePercent |-> Missing]
  /\ qquote = Pending /\ qclient = Pending

\* The source's loop body for the symbol: the response arrives and the record,
\* if any, is pushed.
AdapterParses ==
  /\ qquote = Pending
  /\ qquote' = IF qsource = "upstox" THEN UpstoxQuote(qsym, qresp) ELSE YahooQuote(qsym, qresp)
  /\ UNCHANGED <<now, limiterVars, gatewayVars, batchVars, marketVars, statusVars,
                 qsource, qsym, qresp, qclient, hookVars, laterVars>>

\* The quote reaches the client in the batch response and processStockData
\* maps it.
ClientProcesses ==
  /\ qquote \notin {Pending, NoQuote}
  /\ qclient = Pending
  /\ qclient' = ProcessQuote(qquote)
  /\ UNCHANGED <<now, limiterVars, gatewayVars, batchVars, marketVars, statusVars,
                 qsource, qsym, qresp, qquote, hookVars, laterVars>>

\* ------------------------------------------------------------------------
\* useAppData hook: loadStocks and debouncedSearch write the stock list
\* ------------------------------------------------------------------------
\* The requests are numbered in the order in which they start; the result of
\* request r is written r.

Loads == 1..NumLoads

\* if (retryCountRef.current < 3 && isOnline)
MaxLoadRetries == 3

NextToStart(r) == hpc[r] = "idle" /\ \A d \in Loads : d < r => hpc[d] # "idle"

\* loadStocks(symbols, isRefresh) up to `await apiService.getStockData(symbols)`:
\* the previous AbortController is aborted and a new one is created.  The
\* controller's signal is handed to nobody.  The closure that runs is one of
\* useCallback(..., [isOnline]): online is the isOnline it captured.
BeginLoad(r, online) ==
  /\ NextToStart(r)
  /\ hpc' = [hpc EXCEPT ![r] = "inflight"]
  /\ hkind' = [hkind EXCEPT ![r] = "load"]
  /\ hcaptured' = [hcaptured EXCEPT ![r] = online]
  /\ haborted' = IF hcontroller # 0 THEN haborted \cup {hcontroller} ELSE haborted
  /\ hcontroller' = r

\* loadStocks called by the application (mount, refresh, empty search box),
\* through the closure of the latest render
StartLoad(r) ==
  /\ BeginLoad(r, hisOnline)
  /\ UNCHANGED <<now, limiterVars, gatewayVars, batchVars, marketVars, statusVars, quoteVars,
                 stocks, hretryCount, hretries, hisOnline, tradeVars, laterVars>>

\* retry timer j fires: loadStocks(symbols, true) of the closure that set it
RetryLoad(r, j) ==
  /\ j \in 1..Len(hretries)
  /\ hretries' = SubSeq(hretries, 1, j - 1) \o SubSeq(hretries, j + 1, Len(hretries))
  /\ BeginLoad(r, hretries[j].online)
  /\ UNCHANGED <<now, limiterVars, gatewayVars, batchVars, marketVars, statusVars, quoteVars,
                 stocks, hretryCount, hisOnline, tradeVars, laterVars>>

\* the debounced function runs with a non-empty query, up to
\* `await apiService.searchStocks(query)`
StartSearch(r) ==
  /\ NextToStart(r)
  /\ hpc' = [hpc EXCEPT ![r] = "inflight"]
  /\ hkind' = [hkind EXCEPT ![r] = "search"]
  /\ UNCHANGED <<now, limiterVars, gatewayVars, batchVars, marketVars, statusVars, quoteVars,
                 stocks, hcontroller, haborted, hretryCount, hretries, hisOnline, hcaptured,
                 tradeVars, tradeVars, laterVars>>

\* getStockData resolves: setStocks(processedStocks), retryCountRef reset
LoadResolves(r) ==
  /\ hpc[r] = "inflight" /\ hkind[r] = "load"
  /\ stocks' = r
  /\ hretryCount' = 0
  /\ hpc' = [hpc EXCEPT ![r] = "applied"]
  /\ UNCHANGED <<now, limiterVars, gatewayVars, batchVars, marketVars, statusVars, quoteVars,
                 hkind, hcontroller, haborted, hretries, hisOnline, hcaptured, tradeVars, laterVars>>

\* const retryDelay = Math.pow(2, retryCountRef.current) * 1000, read after
\* retryCountRef.current++
RetryDelay(count) == 2^count * 1000

\* retryCountRef.current < 3 && isOnline, with the closure's isOnline
MayRetry(count, online) == count < MaxLoadRetries /\ online

\* getStockData rejects (never with an AbortError): the error is shown and, up
\* to three times while the closure's isOnline is true, a retry timer is set
LoadRejects(r) ==
  /\ hpc[r] = "inflight" /\ hkind[r] = "load"
  /\ hpc' = [hpc EXCEPT ![r] = "failed"]
  /\ IF MayRetry(hretryCount, hcaptured[r])
       THEN /\ hretryCount' = hretryCount + 1
            /\ hretries' = Append(hretries, [delay |-> RetryDelay(hretryCount'),
                                             online |-> hcaptured[r]])
       ELSE UNCHANGED <<hretryCount, hretries>>
  /\ UNCHANGED <<now, limiterVars, gatewayVars, batchVars, marketVars, statusVars, quoteVars,
                 stocks, hkind, hcontroller, haborted, hisOnline, hcaptured, tradeVars, laterVars>>

\* searchStocks resolves (it catches its errors and then resolves with []):
\* setStocks(searchResults)
SearchResolves(r) ==
  /\ hpc[r] = "inflight" /\ hkind[r] = "search"
  /\ stocks' = r
  /\ hpc' = [hpc EXCEPT ![r] = "applied"]
  /\ UNCHANGED <<now, limiterVars, gatewayVars, batchVars, marketVars, statusVars, quoteVars,
                 hkind, hcontroller, haborted, hretryCount, hretries, hisOnline, hcaptured,
                 tradeVars, tradeVars, laterVars>>

\* handleOnline of the hook: setIsOnline(true) and, while the list is empty,
\* loadStocks() of the closure the handler was registered with (that of the
\* render in which isOnline was false)
HandleOnline(r) ==
  /\ ~hisOnline
  /\ hisOnline' = TRUE
  /\ IF stocks = 0
       THEN BeginLoad(r, FALSE)
       ELSE r = 1 /\ UNCHANGED <<hpc, hkind, hcaptured, haborted, hcontroller>>
  /\ UNCHANGED <<now, limiterVars, gatewayVars, batchVars, marketVars, statusVars, quoteVars,
                 stocks, hretryCount, hretries, tradeVars, laterVars>>

\* handleOffline of the hook: setIsOnline(false)
HandleOffline ==
  /\ hisOnline
  /\ hisOnline' = FALSE
  /\ UNCHANGED <<now, limiterVars, gatewayVars, batchVars, marketVars, statusVars, quoteVars,
                 stocks, hpc, hkind, hcontroller, haborted, hretryCount, hretries, hcaptured,
                 tradeVars, tradeVars, laterVars>>

\* ------------------------------------------------------------------------
\* useAppData hook: executeTrade writes the portfolio
\* ------------------------------------------------------------------------
\* A portfolio object holds a number (availableCash), a reference to its
\* holdings array and its transactions.  `{ ...portfolio }` copies the three
\* fields: the copy and the original share the holdings array, and every
\* array that holds a holding object shares that object.  Arrays and holding
\* objects are numbered in the order of their creation.  Prices are whole
\* rupees; avgPrice and the metrics are left out.

TradeSymbols == {"TCS", "INFY"}
TradePrices == {20000, 30000}
TradeQuantities == {1, 2}
TradeActions == {"buy", "sell"}

\* useState({ holdings: [], ..., availableCash: 50000, ... })
InitialCash == 50000

\* .slice(0, 100)
TransactionLimit == 100

NoStored == [kind |-> "absent"]
NoTrade == [n |-> 0, success |-> TRUE, symbol |-> "", action |-> "", quantity |-> 0, price |-> 0]

\* portfolio.holdings.find(h => h.symbol === symbol) in the portfolio p: the
\* first holding object of the array with that symbol (0: undefined)
FindHolding(p, symbol) ==
  LET arr == holdingArrays[p.holdings]
      found == {i \in 1..Len(arr) : holdingObjs[arr[i]].symbol = symbol}
  IN  IF found = {} THEN 0
      ELSE arr[CHOOSE i \in found : \A k \in found : i <= k]

\* The validation without the test of the sells.
TradeRejectedBuysOnly(p, holding, action, quantity, totalAmount) ==
  action = "buy" /\ totalAmount > p.availableCash

\* the validation of executeTrade, on the captured portfolio p
TradeRejected(p, holding, action, quantity, totalAmount) ==
  \/ action = "buy" /\ totalAmount > p.availableCash
  \/ action = "sell" /\ (holding = 0 \/ holdingObjs[holding].quantity < quantity)

\* updatedPortfolio.holdings.filter(h => h.symbol !== symbol), on the holding
\* objects objs
RECURSIVE FilterOut(_, _, _)
FilterOut(arr, objs, symbol) ==
  IF arr = <<>> THEN <<>>
  ELSE IF objs[Head(arr)].symbol = symbol THEN FilterOut(Tail(arr), objs, symbol)
  ELSE <<Head(arr)>> \o FilterOut(Tail(arr), objs, symbol)

\* [transaction, ...(updatedPortfolio.transactions || [])].slice(0, 100)
AddTransaction(transactions, transaction) ==
  LET all == <<transaction>> \o transactions
  IN  SubSeq(all, 1, IF Len(all) < TransactionLimit THEN Len(all) ELSE TransactionLimit)

\* the holdings of the portfolio p as values, under the arrays and objects given
HoldingsOf(p, arrays, objs) == [i \in 1..Len(arrays[p.holdings]) |-> objs[arrays[p.holdings][i]]]

\* JSON.stringify(updatedPortfolio), parsed
Stringified(p, arrays, objs) ==
  [kind |-> "stored", availableCash |-> p.availableCash,
   holdings |-> HoldingsOf(p, arrays, objs), transactions |-> p.transactions]

TradeInit ==
  /\ holdingObjs = <<>>
  /\ holdingArrays = << <<>> >>
  /\ portfolio = [availableCash |-> InitialCash, holdings |-> 1, transactions |-> <<>>]
  /\ closurePortfolio = portfolio
  /\ storedPortfolio = NoStored
  /\ tradeResult = NoTrade

\* executeTrade({ stock, action, quantity }) of the current closure, the
\* stock having the given symbol and price: the whole call (it awaits nothing)
ExecuteTrade(symbol, price, action, quantity) ==
  LET p == closurePortfolio
      totalAmount == price * quantity
      holding == FindHolding(p, symbol)
      arr == holdingArrays[p.holdings]
      transaction == [symbol |-> symbol, action |-> action, quantity |-> quantity,
                      price |-> price]
      returned(ok) == [n |-> tradeResult.n + 1, success |-> ok, symbol |-> symbol,
                       action |-> action, quantity |-> quantity, price |-> price]
      objsBought == IF holding # 0
                      THEN [holdingObjs EXCEPT ![holding].quantity = @ + quantity]
                      ELSE Append(holdingObjs, [symbol |-> symbol, quantity |-> quantity])
      arraysBought == IF holding # 0 THEN holdingArrays
                      ELSE [holdingArrays EXCEPT ![p.holdings] = Append(arr, Len(objsBought))]
      objsSold == [holdingObjs EXCEPT ![holding].quantity = @ - quantity]
      soldOut == objsSold[holding].quantity = 0
      arraysSold == IF soldOut THEN Append(holdingArrays, FilterOut(arr, objsSold, symbol))
                    ELSE holdingArrays
      updatedPortfolio ==
        [availableCash |-> IF action = "buy" THEN p.availableCash - totalAmount
                           ELSE p.availableCash + totalAmount,
         holdings |-> IF action = "sell" /\ soldOut THEN Len(arraysSold) ELSE p.holdings,
         transactions |-> AddTransaction(p.transactions, transaction)]
  IN
  /\ tradeResult.n < MaxTrades
  /\ IF TradeRejected(p, holding, action, quantity, totalAmount)
          \/ (action = "sell" /\ holding = 0)
       THEN \* the Error of the validation, or the TypeError of `holding.quantity`
            \* with no holding, is caught
            /\ tradeResult' = returned(FALSE)
            /\ UNCHANGED <<portfolio, holdingObjs, holdingArrays, storedPortfolio>>
       ELSE /\ holdingObjs' = IF action = "buy" THEN objsBought ELSE objsSold
            /\ holdingArrays' = IF action = "buy" THEN arraysBought ELSE arraysSold
            /\ portfolio' = updatedPortfolio
            /\ storedPortfolio' = Stringified(updatedPortfolio, holdingArrays', holdingObjs')
            /\ tradeResult' = returned(TRUE)
  /\ UNCHANGED <<now, limiterVars, gatewayVars, batchVars, marketVars, statusVars, quoteVars,
                 stocks, hpc, hkind, hcontroller, haborted, hretryCount, hretries, hisOnline,
                 hcaptured, closurePortfolio, laterVars>>

\* the hook renders after setPortfolio: useCallback(..., [portfolio, stocks])
\* makes the executeTrade that captures the new portfolio
RenderTrade ==
  /\ closurePortfolio # portfolio
  /\ closurePortfolio' = portfolio
  /\ UNCHANGED <<now, limiterVars, gatewayVars, batchVars, marketVars, statusVars, quoteVars,
                 stocks, hpc, hkind, hcontroller, haborted, hretryCount, hretries, hisOnline,
                 hcaptured, portfolio, holdingObjs, holdingArrays, storedPortfolio, tradeResult,
                 laterVars>>

\* ------------------------------------------------------------------------
\* Server: the chart endpoint, GET /api/chart/:symbol
\* ------------------------------------------------------------------------

\* CACHE_DURATIONS.CHART_DATA of the server
SERVER_CACHE_CHART_DATA == 5 * 60 * 1000

ChartSymbols == {"TCS"}
\* the client's default interval; its request carries no range
ChartInterval == "15min"
\* req.originalUrl of the client's chart request
ChartUrl(symbol) == "/api/chart/" \o symbol \o "?interval=" \o ChartInterval

NoChart == [set |-> FALSE, points |-> <<>>]
NoChartResponse == [status |-> 0, data |-> <<>>, cached |-> FALSE]

\* What quotes.open[index], .high, .low, .close of a Yahoo series can hold at
\* one index: a full candle, a gap (all null), or a close without the rest.
\* Prices in rupees; a point's time and volume play no part.
RawQuotes ==
  { [open |-> <<100>>, high |-> <<110>>, low |-> <<90>>, close |-> <<105>>],
    [open |-> Missing, high |-> Missing, low |-> Missing, close |-> Missing],
    [open |-> Missing, high |-> Missing, low |-> Missing, close |-> <<105>>] }
RawSeries == UNION {[1..n -> RawQuotes] : n \in 0..MaxPoints}

\* What the Yahoo chart request can end with: an error, a body without
\* chart.result[0], or a result with a series.
YahooChartOutcomes ==
  {[kind |-> "fail", series |-> <<>>], [kind |-> "noresult", series |-> <<>>]}
  \cup {[kind |-> "result", series |-> series] : series \in RawSeries}

\* a candle of Upstox: [time, open, high, low, close, volume], here the four prices
UpstoxCandles == {<<100, 110, 90, 105>>}
UpstoxChartOutcomes ==
  {[kind |-> "fail", candles |-> <<>>]}
  \cup {[kind |-> "success", candles |-> candles] :
          candles \in UNION {[1..n -> UpstoxCandles] : n \in 0..MaxPoints}}

\* open: quotes.open[index] || 0, and so on
YahooChartPoint(q) ==
  [open |-> OrElse(q.open, Zero)[1], high |-> OrElse(q.high, Zero)[1],
   low |-> OrElse(q.low, Zero)[1], close |-> OrElse(q.close, Zero)[1]]

\* item => item.close > 0
ClosePositive(item) == item.close > 0

\* timestamps.map(...).filter(item => item.close > 0) of the Yahoo branch
YahooChartData(series) ==
  SelectSeq([i \in 1..Len(series) |-> YahooChartPoint(series[i])], ClosePositive)

\* response.data.candles.map(candle => ({open: candle[1], ...})) of the Upstox branch
UpstoxChartData(candles) ==
  [i \in 1..Len(candles) |->
     [open |-> candles[i][1], high |-> candles[i][2],
      low |-> candles[i][3], close |-> candles[i][4]]]

\* The response sent whatever chartData holds.
ChartRespondOk(chart) ==
  [status |-> 200, data |-> chart.points, cached |-> FALSE]

\* if (!chartData || chartData.length === 0) 404, else res.json({status: 'ok', data})
ChartRespond(chart) ==
  IF ~chart.set \/ Len(chart.points) = 0
    THEN [status |-> 404, data |-> <<>>, cached |-> FALSE]
    ELSE [status |-> 200, data |-> chart.points, cached |-> FALSE]

ChartCacheHit(store, key, t) ==
  key \in DOMAIN store /\ t - store[key].timestamp < MsToTicks(SERVER_CACHE_CHART_DATA)

\* the handler sends its response; the patched res.json stores a 200
ChartFinish(chart) ==
  /\ cpc' = "done"
  /\ cdata' = chart
  /\ cresp' = ChartRespond(chart)
  /\ scache' = ServerCacheAfter(scache, ChartUrl(creq), cresp', now)

\* A chart request arrives: the cache middleware answers it, or the handler
\* starts with the Yahoo request.
ChartRequest(symbol) ==
  /\ cpc = "idle"
  /\ creq' = symbol
  /\ IF ChartCacheHit(scache, ChartUrl(symbol), now)
       THEN /\ cpc' = "done"
            /\ cresp' = [scache[ChartUrl(symbol)].data EXCEPT !.cached = TRUE]
            /\ UNCHANGED cdata
       ELSE /\ cpc' = "yahoo"
            /\ cdata' = NoChart
            /\ UNCHANGED cresp
  /\ UNCHANGED scache

\* The Yahoo request settles.  Without chartData the handler goes on to
\* Upstox when the token is set and the instrument is known.
ChartYahooSettles(outcome) ==
  /\ cpc = "yahoo"
  /\ LET chart == IF outcome.kind = "result"
                    THEN [set |-> TRUE, points |-> YahooChartData(outcome.series)]
                    ELSE NoChart
     IN IF ~chart.set /\ tokenSet /\ creq \in instruments
          THEN /\ cpc' = "upstox"
               /\ cdata' = chart
               /\ UNCHANGED <<cresp, scache>>
          ELSE ChartFinish(chart)
  /\ UNCHANGED <<now, creq, tokenSet, instruments, bpc, breq, bidx, bresults, berrors,
                 bsuccessful, bcalls, bresp, limiterVars, gatewayVars, marketVars,
                 statusVars, quoteVars, hookVars, persistVars, contentVars, wsVars>>

\* The request for the historical candles of Upstox settles.
ChartUpstoxSettles(outcome) ==
  /\ cpc = "upstox"
  /\ ChartFinish(IF outcome.kind = "success"
                   THEN [set |-> TRUE, points |-> UpstoxChartData(outcome.candles)]
                   ELSE cdata)
  /\ UNCHANGED <<now, creq, tokenSet, instruments, bpc, breq, bidx, bresults, berrors,
                 bsuccessful, bcalls, bresp, limiterVars, gatewayVars, marketVars,
                 statusVars, quoteVars, hookVars, persistVars, contentVars, wsVars>>

\* ------------------------------------------------------------------------
\* Client gateway: getNewsData and getChartData
\* ------------------------------------------------------------------------

\* CACHE_DURATIONS.NEWS_DATA and CACHE_DURATIONS.CHART_DATA of the client
CACHE_NEWS_DATA == 30 * 60 * 1000
CACHE_CHART_DATA == 10 * 60 * 1000
\* .slice(0, 5) in processNewsData
NewsSliceLimit == 5

NewsCacheKey(symbol) == "news_" \o symbol
\* `chart_${symbol}_${interval}_${range}` with the defaults '15min' and '1d'
ChartCacheKey(symbol) == "chart_" \o symbol \o "_" \o ChartInterval \o "_1d"

\* An article of the news endpoint: whether it has a title and a description.
Articles ==
  {[id |-> 1, title |-> TRUE, description |-> TRUE],
   [id |-> 2, title |-> FALSE, description |-> TRUE]}
\* What the fetch of /news can end with: status 0 is a network error or a body
\* whose status is not 'ok'.
NewsHttpResponses ==
  {[status |-> 0, articles |-> <<>>]}
  \cup {[status |-> 200, articles |-> list] :
          list \in UNION {[1..n -> Articles] : n \in 0..MaxArticles}}
\* What the fetch of /chart/:symbol can end with.
ChartHttpResponses ==
  {[status |-> 0, data |-> <<>>, cached |-> FALSE],
   [status |-> 404, data |-> <<>>, cached |-> FALSE],
   [status |-> 200, data |-> <<>>, cached |-> FALSE],
   [status |-> 200, cached |-> FALSE,
    data |-> <<[open |-> 100, high |-> 110, low |-> 90, close |-> 105]>>]}

HasTitleAndDescription(article) == article.title /\ article.description

\* processNewsData(articles)
ProcessNewsData(articles) ==
  LET kept == Slice(SelectSeq(articles, HasTitleAndDescription), NewsSliceLimit)
  IN [kind |-> "news",
      items |-> [i \in 1..Len(kept) |-> [id |-> kept[i].id, sentiment |-> TRUE]]]

NoNews == [kind |-> "news", items |-> <<>>]

\* The cache written whatever the list holds.
NewsCacheAlways(store, key, newsData, t) ==
  CacheAfterSet(store, key, newsData, t, MsToTicks(CACHE_NEWS_DATA))

\* if (!newsData || newsData.length === 0) return []; else setCachedData(...)
NewsCacheAfter(store, key, newsData, t) ==
  IF Len(newsData.items) = 0
    THEN store
    ELSE CacheAfterSet(store, key, newsData, t, MsToTicks(CACHE_NEWS_DATA))

\* response.ok && data.status === 'ok' && data.data && data.data.length > 0
ChartUsable(resp) == resp.status = 200 /\ Len(resp.data) > 0

\* The part of getNewsData and getChartData up to the first await: the cache
\* lookup, the online check and the invocation of the 'backend' rate limiter.
BeginContent(c, kind, symbol, key) ==
  /\ gpc[c] = "idle"
  /\ \A d \in GwCalls : d < c => gpc[d] # "idle"
  /\ gsyms' = [gsyms EXCEPT ![c] = <<symbol>>]
  /\ gkind' = [gkind EXCEPT ![c] = kind]
  /\ cache' = CacheAfterGet(cache, key, now)
  /\ LET cached == GetCachedValue(cache, key, now)
     IN IF cached # Null
          THEN /\ Settle(c, "data", "cache", cached)
               /\ UNCHANGED gstat
          ELSE IF ~isOnline
            THEN /\ Settle(c, "error", "offline", Null)
                 /\ gstat' = [gstat EXCEPT ![c].miss = TRUE]
            ELSE /\ gpc' = [gpc EXCEPT ![c] = "acquire"]
                 /\ gstat' = [gstat EXCEPT ![c].miss = TRUE, ![c].acqs = @ + 1]
                 /\ UNCHANGED gresult
  /\ UNCHANGED <<now, snapshot, lastSet, obs, lastKnown, isOnline, gattempt, gwake,
                 limiterVars, batchVars, marketVars, statusVars, quoteVars, hookVars,
                 persistVars, chartVars, wsVars>>

GetNewsData(c, symbol) == BeginContent(c, "news", symbol, NewsCacheKey(symbol))

GetChartData(c, symbol) == BeginContent(c, "chart", symbol, ChartCacheKey(symbol))

\* requestFn throws an error for `cause` (the status of the response it got):
\* before the last attempt the call backs off; after it makeRateLimitedRequest
\* throws that error, the catch block of getNewsData returns [] and that of
\* getChartData throws an error with the message of the one it caught.
ContentFails(c, cause) ==
  /\ gstat' = [gstat EXCEPT ![c].fails = @ + 1, ![c].causes = Append(@, cause)]
  /\ IF gattempt[c] = DefaultRetries
       THEN /\ IF gkind[c] = "news"
                 THEN Settle(c, "data", "failed", NoNews)
                 ELSE Settle(c, "error", "failed", [kind |-> "error", cause |-> cause])
            /\ UNCHANGED gwake
       ELSE /\ gpc' = [gpc EXCEPT ![c] = "backoff"]
            /\ gwake' = [gwake EXCEPT ![c] = now + MsToTicks(BackoffDelayMs(gattempt[c]))]
            /\ UNCHANGED gresult
  /\ UNCHANGED <<cache, snapshot>>

\* The fetch of getNewsData settles with `resp`.
NewsResponds(c, resp) ==
  /\ gpc[c] = "await" /\ gkind[c] = "news"
  /\ IF resp.status = 200
       THEN LET newsData == ProcessNewsData(resp.articles) IN
              /\ cache' = NewsCacheAfter(cache, NewsCacheKey(gsyms[c][1]), newsData, now)
              /\ snapshot' \in {snapshot, cache'}
              /\ Settle(c, "data", "network", newsData)
              /\ UNCHANGED <<gwake, gstat>>
       ELSE ContentFails(c, resp.status)
  /\ UNCHANGED <<now, lastSet, obs, lastKnown, isOnline, gsyms, gattempt,
                 limiterVars, batchVars, marketVars, restVars>>

\* What getChartData does when its fetch settles with `resp`.
ChartClientStep(c, resp) ==
  /\ gpc[c] = "await" /\ gkind[c] = "chart"
  /\ IF ChartUsable(resp)
       THEN LET chartData == [kind |-> "chart", points |-> resp.data] IN
              /\ cache' = CacheAfterSet(cache, ChartCacheKey(gsyms[c][1]), chartData, now,
                                        MsToTicks(CACHE_CHART_DATA))
              /\ snapshot' \in {snapshot, cache'}
              /\ Settle(c, "data", "network", chartData)
              /\ UNCHANGED <<gwake, gstat>>
       ELSE ContentFails(c, resp.status)
  /\ UNCHANGED <<now, lastSet, obs, lastKnown, isOnline, gsyms, gattempt, gkind,
                 limiterVars, marketVars, statusVars, quoteVars, hookVars, persistVars, wsVars>>

\* The fetch of getChartData settles with `resp`, whatever backend sent it.
ChartResponds(c, resp) ==
  /\ ChartClientStep(c, resp)
  /\ UNCHANGED <<batchVars, chartVars, wsVars>>

\* The chart request of call c reaches the server.
ChartFetch(c) ==
  /\ gpc[c] = "await" /\ gkind[c] = "chart"
  /\ ChartRequest(gsyms[c][1])
  /\ UNCHANGED <<now, tokenSet, instruments, bpc, breq, bidx, bresults, berrors,
                 bsuccessful, bcalls, bresp, limiterVars, gatewayVars, marketVars,
                 statusVars, quoteVars, hookVars, persistVars, contentVars, wsVars>>

\* The server's response reaches call c.
ChartDelivers(c) ==
  /\ cpc = "done"
  /\ ChartClientStep(c, cresp)
  /\ cpc' = "idle"
  /\ UNCHANGED <<batchVars, creq, cdata, cresp>>

\* The chart request of call c fails before it reaches the server.
ChartFetchFails(c) ==
  /\ cpc = "idle"
  /\ ChartClientStep(c, [status |-> 0, data |-> <<>>, cached |-> FALSE])
  /\ UNCHANGED <<batchVars, chartVars, wsVars>>

ContentTick ==
  /\ now < ContentMaxTime
  /\ now' = now + 1
  /\ UNCHANGED <<gatewayVars, limiterVars, batchVars, marketVars, restVars>>

\* ------------------------------------------------------------------------
\* Client gateway: the WebSocket and the online / offline events
\* ------------------------------------------------------------------------

\* this.maxReconnectAttempts
MaxReconnectAttempts == 5

NoWsStat == [closes |-> 0, refused |-> FALSE]

\* const delay = Math.min(1000 * Math.pow(2, this.wsReconnectAttempts), 30000);
WsReconnectDelay(attempts) ==
  IF 1000 * 2^attempts < 30000 THEN 1000 * 2^attempts ELSE 30000

\* setupWebSocket() without the test of the attempt counter.
WsSetupUnlimited(conns, current, attempts) ==
  [conns |-> Append(conns, "connecting"), current |-> Len(conns) + 1, refused |-> FALSE]

\* setupWebSocket(): nothing when the attempt counter has reached the limit,
\* else a new WebSocket, which this.websocket then refers to.  (The
\* constructor does not throw for the fixed wss URL.)
WsSetup(conns, current, attempts) ==
  IF attempts >= MaxReconnectAttempts
    THEN [conns |-> conns, current |-> current, refused |-> TRUE]
    ELSE [conns |-> Append(conns, "connecting"), current |-> Len(conns) + 1,
          refused |-> FALSE]

\* websocket.close(): a connecting or open connection starts closing
WsAfterClose(conns, i) ==
  IF i # 0 /\ conns[i] \in {"connecting", "open"}
    THEN [conns EXCEPT ![i] = "closing"]
    ELSE conns

\* setupWebSocket() is called; the model stops creating connections at MaxConns
DoSetupWebSocket ==
  LET setup == WsSetup(wsConns, websocket, wsReconnectAttempts) IN
    /\ Len(setup.conns) <= MaxConns
    /\ wsConns' = setup.conns
    /\ websocket' = setup.current
    /\ wsStat' = [wsStat EXCEPT !.refused = @ \/ setup.refused]

\* The state after the constructor: setupWebSocket() has created the first
\* connection.
WsInit ==
  /\ wsConns = <<"connecting">> /\ websocket = 1
  /\ wsReconnectAttempts = 0 /\ wsTimers = <<>> /\ wsStat = NoWsStat

\* onopen of connection i
WsOpen(i) ==
  /\ wsConns[i] = "connecting"
  /\ wsConns' = [wsConns EXCEPT ![i] = "open"]
  /\ wsReconnectAttempts' = 0
  /\ wsStat' = [wsStat EXCEPT !.closes = 0]
  /\ UNCHANGED <<now, websocket, wsTimers, limiterVars, gatewayVars, batchVars, marketVars,
                 statusVars, quoteVars, hookVars, persistVars, contentVars, chartVars>>

\* onclose of connection i: the connection failed, was closed by the server,
\* or its close() has completed
WsClosed(i) ==
  /\ wsConns[i] \in {"connecting", "open", "closing"}
  /\ wsConns' = [wsConns EXCEPT ![i] = "closed"]
  /\ wsReconnectAttempts' = wsReconnectAttempts + 1
  /\ wsStat' = [wsStat EXCEPT !.closes = @ + 1]
  /\ wsTimers' = IF wsReconnectAttempts' < MaxReconnectAttempts
                   THEN Append(wsTimers, [n |-> wsStat'.closes,
                                          delay |-> WsReconnectDelay(wsReconnectAttempts')])
                   ELSE wsTimers
  /\ UNCHANGED <<now, websocket, limiterVars, gatewayVars, batchVars, marketVars,
                 statusVars, quoteVars, hookVars, persistVars, contentVars, chartVars>>

\* a reconnect timer fires: setupWebSocket()
WsTimerFires(j) ==
  /\ j \in 1..Len(wsTimers)
  /\ wsTimers' = [k \in 1..(Len(wsTimers) - 1) |-> IF k < j THEN wsTimers[k] ELSE wsTimers[k + 1]]
  /\ DoSetupWebSocket
  /\ UNCHANGED <<now, wsReconnectAttempts, limiterVars, gatewayVars, batchVars, marketVars,
                 statusVars, quoteVars, hookVars, persistVars, contentVars, chartVars>>

\* the 'online' event: isOnline = true, setupWebSocket()
GoOnline ==
  /\ ~isOnline
  /\ isOnline' = TRUE
  /\ DoSetupWebSocket
  /\ UNCHANGED <<now, wsReconnectAttempts, wsTimers, storeVars, lastKnown, callVars,
                 limiterVars, batchVars, marketVars,
                 statusVars, quoteVars, hookVars, persistVars, contentVars, chartVars>>

\* the 'offline' event: isOnline = false, this.websocket.close()
GoOffline ==
  /\ isOnline
  /\ isOnline' = FALSE
  /\ wsConns' = WsAfterClose(wsConns, websocket)
  /\ UNCHANGED <<now, websocket, wsReconnectAttempts, wsTimers, wsStat, storeVars, lastKnown,
                 callVars, limiterVars, batchVars, marketVars,
                 statusVars, quoteVars, hookVars, persistVars, contentVars, chartVars>>

\* cleanup() of the page with its socket: the sweep, saveCacheToStorage() and
\* this.websocket.close()
WsCleanup ==
  /\ DoCleanup
  /\ wsConns' = WsAfterClose(wsConns, websocket)
  /\ UNCHANGED <<now, websocket, wsReconnectAttempts, wsTimers, wsStat, lastSet, obs,
                 lastKnown, isOnline, callVars, limiterVars, batchVars, marketVars,
                 statusVars, quoteVars, hookVars, persistVars, contentVars, chartVars>>

\* ------------------------------------------------------------------------
\* Specifications
\* ------------------------------------------------------------------------


StatusIdle == mpc = "idle" /\ mreqs = 0 /\ mresult = "none"

\* the hook after its first render: useState(navigator.onLine)
HookInit ==
  /\ stocks = 0
  /\ hpc = [r \in Loads |-> "idle"]
  /\ hkind = [r \in Loads |-> "none"]
  /\ hcontroller = 0 /\ haborted = {}
  /\ hretryCount = 0 /\ hretries = <<>>
  /\ hisOnline \in BOOLEAN
  /\ hcaptured = [r \in Loads |-> TRUE]
  /\ TradeInit

HookIdle == HookInit /\ hisOnline

PersistIdle == pstat = NoRestart

ContentIdle == gkind = [c \in GwCalls |-> "none"]

ChartIdle == cpc = "idle" /\ creq = "" /\ cdata = NoChart /\ cresp = NoChartResponse

WsIdle ==
  /\ wsConns = <<>> /\ websocket = 0
  /\ wsReconnectAttempts = 0 /\ wsTimers = <<>> /\ wsStat = NoWsStat

LaterIdle == PersistIdle /\ ContentIdle /\ ChartIdle /\ WsIdle

RestIdle == StatusIdle /\ QuoteIdle /\ HookIdle /\ LaterIdle

MarketIdle ==
  /\ dayOfWeek = 0 /\ hours = 0 /\ minutes = 0
  /\ clientStatus = "none" /\ serverStatus = "none"
  /\ helperStatus = "none" /\ apiStatus = "none"

LimiterIdle ==
  /\ maxCalls = 1 /\ timeWindow = 1 /\ calls = <<>>
  /\ lpc = [c \in Callers |-> "idle"]
  /\ wakeAt = [c \in Callers |-> 0]
  /\ invokedAt = [c \in Callers |-> -1]
  /\ grantAt = [c \in Callers |-> -1]

BatchIdle ==
  /\ scache = EmptyMap /\ tokenSet = FALSE /\ instruments = {}
  /\ bpc = "idle" /\ breq = NoRequest /\ bidx = 0
  /\ bresults = <<>> /\ berrors = <<>> /\ bsuccessful = 0
  /\ bcalls = <<>> /\ bresp = NoResponse

GatewayIdle ==
  /\ cache = EmptyMap /\ snapshot = EmptyMap /\ lastSet = EmptyMap /\ obs = Null
  /\ lastKnown = Null /\ isOnline = TRUE
  /\ gpc = [c \in GwCalls |-> "idle"]
  /\ gsyms = [c \in GwCalls |-> <<>>]
  /\ gattempt = [c \in GwCalls |-> 0]
  /\ gwake = [c \in GwCalls |-> 0]
  /\ gresult = [c \in GwCalls |-> NoResult]
  /\ gstat = [c \in GwCalls |-> NoStat]

SpecLimiterInit == now = 0 /\ LimiterInit /\ GatewayIdle /\ BatchIdle /\ MarketIdle /\ RestIdle

SpecLimiterNext ==
  \/ \E c \in Callers : Invoke(c)
  \/ \E c \in Callers : Wake(c)
  \/ LimiterTick

SpecLimiter == SpecLimiterInit /\ [][SpecLimiterNext]_vars

\* Timers fire and time passes: the event loop runs every timer that is due.
LimiterFairness ==
  /\ \A c \in Callers : WF_vars(Wake(c))
  /\ WF_vars(LimiterTick)

SpecLimiterLive == SpecLimiter /\ LimiterFairness

GatewayInit ==
  /\ cache = EmptyMap /\ snapshot = EmptyMap /\ lastSet = EmptyMap /\ obs = Null
  /\ lastKnown = Null
  /\ isOnline \in BOOLEAN
  /\ gpc = [c \in GwCalls |-> "idle"]
  /\ gsyms = [c \in GwCalls |-> <<>>]
  /\ gattempt = [c \in GwCalls |-> 0]
  /\ gwake = [c \in GwCalls |-> 0]
  /\ gresult = [c \in GwCalls |-> NoResult]
  /\ gstat = [c \in GwCalls |-> NoStat]

SpecGatewayInit == now = 0 /\ LimiterIdle /\ GatewayInit /\ BatchIdle /\ MarketIdle /\ RestIdle

SpecGatewayNext ==
  \/ \E c \in GwCalls :
       \E symbols \in (IF c = 1 THEN FirstLists ELSE SymbolLists) :
         GetStockData(c, symbols)
  \/ \E c \in GwCalls : SendFirst(c)
  \/ \E c \in GwCalls : ResponseOk(c)
  \/ \E c \in GwCalls : ResponseFail(c)
  \/ \E c \in GwCalls : Retry(c)
  \/ Cleanup
  \/ GatewayTick
  \/ GatewayDayPasses

SpecGateway == SpecGatewayInit /\ [][SpecGatewayNext]_vars

SpecStoreInit == now = 0 /\ LimiterIdle /\ GatewayIdle /\ BatchIdle /\ MarketIdle /\ RestIdle

SpecStoreNext ==
  \/ \E key \in StoreKeys, data \in Blobs, duration \in 1..MaxTTL :
       SetCachedData(key, data, duration)
  \/ \E key \in StoreKeys : GetCachedData(key)
  \/ Cleanup
  \/ StoreTick

SpecStore == SpecStoreInit /\ [][SpecStoreNext]_vars

\* The page that is loaded again and again: the first load finds what
\* localStorage holds.
SpecPersistInit ==
  /\ now = PersistStart
  /\ snapshot \in StoredMaps
  /\ cache = LoadedCache(snapshot, now)
  /\ lastSet = EmptyMap /\ obs = Null
  /\ lastKnown = Null /\ isOnline = TRUE
  /\ gpc = [c \in GwCalls |-> "idle"]
  /\ gsyms = [c \in GwCalls |-> <<>>]
  /\ gattempt = [c \in GwCalls |-> 0]
  /\ gwake = [c \in GwCalls |-> 0]
  /\ gresult = [c \in GwCalls |-> NoResult]
  /\ gstat = [c \in GwCalls |-> NoStat]
  /\ LimiterIdle /\ BatchIdle /\ MarketIdle /\ RestIdle

SpecPersistNext ==
  \/ \E key \in StoreKeys, data \in Blobs, duration \in 1..MaxTTL :
       SetCachedData(key, data, duration)
  \/ \E key \in StoreKeys : GetCachedData(key)
  \/ PersistCleanup
  \/ Restart
  \/ PersistTick

SpecPersist == SpecPersistInit /\ [][SpecPersistNext]_vars

\* News and chart calls next to stock calls, the backend answering anything.
SpecContentInit ==
  now = 0 /\ LimiterIdle /\ GatewayIdle /\ BatchIdle /\ MarketIdle /\ RestIdle

SpecContentNext ==
  \/ \E c \in GwCalls : \E symbols \in FirstLists : GetStockData(c, symbols)
  \/ \E c \in GwCalls : \E symbol \in ChartSymbols : GetNewsData(c, symbol)
  \/ \E c \in GwCalls : \E symbol \in ChartSymbols : GetChartData(c, symbol)
  \/ \E c \in GwCalls : SendFirst(c)
  \/ \E c \in GwCalls : gkind[c] = "none" /\ ResponseOk(c)
  \/ \E c \in GwCalls : gkind[c] = "none" /\ ResponseFail(c)
  \/ \E c \in GwCalls : \E resp \in NewsHttpResponses : NewsResponds(c, resp)
  \/ \E c \in GwCalls : \E resp \in ChartHttpResponses : ChartResponds(c, resp)
  \/ \E c \in GwCalls : Retry(c)
  \/ ContentTick

SpecContent == SpecContentInit /\ [][SpecContentNext]_vars

\* Chart calls of the client answered by the chart endpoint of the server.
SpecChartInit ==
  /\ now = 0 /\ LimiterIdle /\ GatewayIdle /\ MarketIdle /\ RestIdle
  /\ scache = EmptyMap
  /\ tokenSet \in BOOLEAN
  /\ instruments \in {ChartSymbols, {}}
  /\ bpc = "idle" /\ breq = NoRequest /\ bidx = 0
  /\ bresults = <<>> /\ berrors = <<>> /\ bsuccessful = 0
  /\ bcalls = <<>> /\ bresp = NoResponse

SpecChartNext ==
  \/ \E c \in GwCalls : \E symbol \in ChartSymbols : GetChartData(c, symbol)
  \/ \E c \in GwCalls : SendFirst(c)
  \/ \E c \in GwCalls : ChartFetch(c)
  \/ \E outcome \in YahooChartOutcomes : ChartYahooSettles(outcome)
  \/ \E outcome \in UpstoxChartOutcomes : ChartUpstoxSettles(outcome)
  \/ \E c \in GwCalls : ChartDelivers(c)
  \/ \E c \in GwCalls : ChartFetchFails(c)
  \/ \E c \in GwCalls : Retry(c)
  \/ ContentTick

SpecChart == SpecChartInit /\ [][SpecChartNext]_vars

\* Chart calls whose requests the backend answers in any way; every request
\* settles (its fetch is aborted after 15 s) and every timer fires.
SpecRetryInit == SpecContentInit

SpecRetryNext ==
  \/ \E c \in GwCalls : \E symbol \in ChartSymbols : GetChartData(c, symbol)
  \/ \E c \in GwCalls : SendFirst(c)
  \/ \E c \in GwCalls : \E resp \in ChartHttpResponses : ChartResponds(c, resp)
  \/ \E c \in GwCalls : Retry(c)
  \/ ContentTick

RetryFairness ==
  \A c \in GwCalls :
     /\ WF_vars(SendFirst(c))
     /\ WF_vars(\E resp \in ChartHttpResponses : ChartResponds(c, resp))
     /\ WF_vars(Retry(c))

SpecRetry == SpecRetryInit /\ [][SpecRetryNext]_vars /\ RetryFairness

\* The socket of the service, the browser's online and offline events and the
\* periodic cleanup().
SpecSocketInit ==
  /\ now = 0 /\ LimiterIdle /\ BatchIdle /\ MarketIdle
  /\ StatusIdle /\ QuoteIdle /\ HookIdle /\ PersistIdle /\ ContentIdle /\ ChartIdle
  /\ GatewayInit
  /\ WsInit

SpecSocketNext ==
  \/ \E i \in 1..Len(wsConns) : WsOpen(i)
  \/ \E i \in 1..Len(wsConns) : WsClosed(i)
  \/ \E j \in 1..Len(wsTimers) : WsTimerFires(j)
  \/ GoOnline
  \/ GoOffline
  \/ WsCleanup

SpecSocket == SpecSocketInit /\ [][SpecSocketNext]_vars

\* Stock, news and chart calls while the browser goes offline and online.
SpecOfflineInit ==
  /\ now = 0 /\ LimiterIdle /\ BatchIdle /\ MarketIdle
  /\ StatusIdle /\ QuoteIdle /\ HookIdle /\ PersistIdle /\ ContentIdle /\ ChartIdle
  /\ GatewayInit
  /\ WsInit

SpecOfflineNext ==
  \/ \E c \in GwCalls : \E symbols \in FirstLists : GetStockData(c, symbols)
  \/ \E c \in GwCalls : \E symbol \in ChartSymbols : GetNewsData(c, symbol)
  \/ \E c \in GwCalls : \E symbol \in ChartSymbols : GetChartData(c, symbol)
  \/ \E c \in GwCalls : SendFirst(c)
  \/ \E c \in GwCalls : gkind[c] = "none" /\ ResponseOk(c)
  \/ \E c \in GwCalls : gkind[c] = "none" /\ ResponseFail(c)
  \/ \E c \in GwCalls : \E resp \in NewsHttpResponses : NewsResponds(c, resp)
  \/ \E c \in GwCalls : \E resp \in ChartHttpResponses : ChartResponds(c, resp)
  \/ \E c \in GwCalls : Retry(c)
  \/ GoOnline
  \/ GoOffline

SpecOffline == SpecOfflineInit /\ [][SpecOfflineNext]_vars

\* The response cache after an earlier request for TCS that Yahoo answered.
WarmCache ==
  MapPut(EmptyMap, BatchUrl,
         [data |-> LoopResponse(<<[symbol |-> "TCS", source |-> "Yahoo Finance"]>>, <<>>, 0),
          timestamp |-> 0])

\* The server when a request arrives: the cache is empty or holds the response
\* of an earlier request, the token is configured or not, and the instrument
\* list is loaded, partly loaded or not loaded.
BatchInit ==
  /\ scache \in {EmptyMap, WarmCache}
  /\ tokenSet \in BOOLEAN
  /\ instruments \in {BSymbols, {"TCS"}, {}}
  /\ bpc = "idle" /\ breq = NoRequest /\ bidx = 0
  /\ bresults = <<>> /\ berrors = <<>> /\ bsuccessful = 0
  /\ bcalls = <<>> /\ bresp = NoResponse

SpecBatchInit == now = 0 /\ LimiterIdle /\ GatewayIdle /\ BatchInit /\ MarketIdle /\ RestIdle

SpecBatchNext ==
  \/ \E symbols \in RequestLists, source \in RequestSources :
       BatchRequest([symbols |-> symbols, source |-> source])
  \/ \E healthy \in SUBSET BSymbols : SourceSettles(healthy)
  \/ BatchTick

SpecBatch == SpecBatchInit /\ [][SpecBatchNext]_vars

SpecMarketInit == now = 0 /\ LimiterIdle /\ GatewayIdle /\ BatchIdle /\ MarketInit /\ RestIdle

SpecMarketNext ==
  \/ ClientClassify
  \/ ServerClassify
  \/ HelperClassify
  \/ ApiClassify
  \/ GetMarketStatus
  \/ StatusResponseOk
  \/ StatusResponseFail

SpecMarket == SpecMarketInit /\ [][SpecMarketNext]_vars

SpecQuoteInit ==
  /\ now = 0 /\ LimiterIdle /\ GatewayIdle /\ BatchIdle /\ MarketIdle
  /\ StatusIdle /\ QuoteInit /\ HookIdle /\ LaterIdle

SpecQuoteNext == AdapterParses \/ ClientProcesses

SpecQuote == SpecQuoteInit /\ [][SpecQuoteNext]_vars

SpecHookInit ==
  /\ now = 0 /\ LimiterIdle /\ GatewayInit /\ BatchIdle /\ MarketIdle
  /\ StatusIdle /\ QuoteIdle /\ HookInit /\ LaterIdle

SpecHookNext ==
  \/ \E r \in Loads : StartLoad(r)
  \/ \E r \in Loads : \E j \in 1..MaxLoadRetries : RetryLoad(r, j)
  \/ \E r \in Loads : StartSearch(r)
  \/ \E r \in Loads : LoadResolves(r)
  \/ \E r \in Loads : LoadRejects(r)
  \/ \E r \in Loads : SearchResolves(r)
  \/ \E r \in Loads : HandleOnline(r)
  \/ HandleOffline

SpecHook == SpecHookInit /\ [][SpecHookNext]_vars

SpecTradeInit ==
  /\ now = 0 /\ LimiterIdle /\ GatewayIdle /\ BatchIdle /\ MarketIdle /\ RestIdle

SpecTradeNext ==
  \/ \E symbol \in TradeSymbols, price \in TradePrices, action \in TradeActions,
          quantity \in TradeQuantities : ExecuteTrade(symbol, price, action, quantity)
  \/ RenderTrade

SpecTrade == SpecTradeInit /\ [][SpecTradeNext]_vars

\* ------------------------------------------------------------------------
\* Claims about the rate limiter
\* ------------------------------------------------------------------------

Granted == {c \in Callers : grantAt[c] # -1}

\* The grants that fall in the window of length timeWindow ending at time t.
GrantsInWindow(t) ==
  {c \in Granted : grantAt[c] > t - timeWindow /\ grantAt[c] <= t}

\* C1: at most maxCalls invocations are granted within any time window of
\* length timeWindow (it is enough to look at the windows that end at a grant);
\* so two callers suspended on the same full window are not both granted when
\* one slot frees up.
C1_QuotaPerWindow ==
  \A c \in Granted : Cardinality(GrantsInWindow(grantAt[c])) <= maxCalls

Burst(t) == {c \in Callers : invokedAt[c] = t}

\* no grant of an earlier invocation is still in the window at time t
WindowEmptyBefore(t) ==
  \A c \in Callers :
    (invokedAt[c] # -1 /\ invokedAt[c] < t /\ grantAt[c] # -1) => grantAt[c] <= t - timeWindow

BurstSettled(t) ==
  /\ Cardinality(Burst(t)) = maxCalls + 1
  /\ WindowEmptyBefore(t)
  /\ Burst(t) \subseteq Granted

\* C11: when maxCalls + 1 acquisitions are requested back-to-back (at the same
\* instant, on an empty window), maxCalls of them are granted without delay and
\* the remaining one after a delay greater than 0 and at most timeWindow.
C11_BurstDelay ==
  \A t \in 0..now :
    BurstSettled(t)
    => LET immediate == {c \in Burst(t) : grantAt[c] = t} IN
         /\ Cardinality(immediate) = maxCalls
         /\ \A c \in Burst(t) \ immediate :
              grantAt[c] - t > 0 /\ grantAt[c] - t <= timeWindow

\* A burst of three on a limiter of two has been granted, one of them late.
C11_Witness ==
  /\ maxCalls = 2
  /\ \E t \in 0..now : BurstSettled(t) /\ \E c \in Burst(t) : grantAt[c] > t

\* C12: every invocation of the limiter eventually resolves (timers firing):
\* no caller waits forever.  The function has no path that rejects.
C12_EveryInvocationResolves ==
  \A c \in Callers : (invokedAt[c] # -1) ~> (lpc[c] = "granted")

\* Every caller has been granted, one of them after having waited.
C12_Witness ==
  /\ \A c \in Callers : lpc[c] = "granted"
  /\ \E c \in Callers : grantAt[c] > invokedAt[c]

\* the number of entries of the shared list with timestamp t
RecordedAt(t) == Cardinality({i \in 1..Len(calls) : calls[i] = t})

\* C20: the limiter's list gains exactly one entry per granted acquisition,
\* added when the slot is granted, also for an invocation that had to wait: as
\* long as a grant is inside the window, the shared list holds its timestamp.
C20_EveryGrantIsRecorded ==
  \A c \in Granted :
    grantAt[c] > now - timeWindow
    => RecordedAt(grantAt[c]) = Cardinality({d \in Granted : grantAt[d] = grantAt[c]})

\* ------------------------------------------------------------------------
\* Claims about the client gateway
\* ------------------------------------------------------------------------

\* c2 started after c1 had settled, and less than the stock TTL later
StartedWithinTtlAfter(c1, c2) ==
  /\ c1 # c2
  /\ gpc[c1] = "done" /\ gpc[c2] = "done"
  /\ c1 \in gstat[c2].recent

\* C2: two getStockData calls with the same symbol list, the second started
\* after the first completed successfully and before the TTL elapsed: the
\* second returns the cached result, and together they issue exactly one
\* network request and exactly one rate-limiter acquisition.
C2_SecondCallIsCacheHit ==
  \A c1, c2 \in GwCalls :
    (/\ StartedWithinTtlAfter(c1, c2)
     /\ gsyms[c1] = gsyms[c2]
     /\ gresult[c1].kind = "data")
    => /\ gresult[c2].via = "cache"
       /\ gresult[c2].data = gresult[c1].data
       /\ gstat[c1].reqs + gstat[c2].reqs = 1
       /\ gstat[c1].acqs + gstat[c2].acqs = 1

Occurrences(list, x) == Cardinality({i \in 1..Len(list) : list[i] = x})
IsPermutation(a, b) ==
  Len(a) = Len(b) /\ \A x \in Symbols : Occurrences(a, x) = Occurrences(b, x)

\* C4: the cache key of a quote request does not depend on the order of the
\* symbols: a result fetched and cached for a list is a cache hit for every
\* permutation of the list requested within the TTL.
C4_KeyIgnoresSymbolOrder ==
  \A c1, c2 \in GwCalls :
    (/\ StartedWithinTtlAfter(c1, c2)
     /\ IsPermutation(gsyms[c1], gsyms[c2])
     /\ gresult[c1].via = "network")
    => /\ CacheKey(gsyms[c1]) = CacheKey(gsyms[c2])
       /\ gresult[c2].via = "cache"

\* C5: a quote request that missed the cache and whose every provider attempt
\* failed rejects with an error and hands no quote data to the caller.
C5_TotalFailureRejects ==
  \A c \in GwCalls :
    (/\ gpc[c] = "done"
     /\ gstat[c].miss
     /\ gstat[c].reqs > 0
     /\ gstat[c].fails = gstat[c].reqs)
    => /\ gresult[c].kind = "error"
       /\ gresult[c].data = Null

\* C21: every network attempt is preceded by a rate-limiter acquisition of its
\* own: a request has never sent more network requests than it has made
\* acquisitions, also when it is retried.
C21_AcquisitionPerAttempt ==
  \A c \in GwCalls : gstat[c].reqs <= gstat[c].acqs

\* the cache key of call c
KeyOf(c) ==
  IF gkind[c] = "news" THEN NewsCacheKey(gsyms[c][1])
  ELSE IF gkind[c] = "chart" THEN ChartCacheKey(gsyms[c][1])
  ELSE CacheKey(gsyms[c])

\* the number of results a call resolved with
ResultCount(data) ==
  IF data.kind = "quotes" THEN Len(data.syms)
  ELSE IF data.kind = "news" THEN Len(data.items)
  ELSE IF data.kind = "chart" THEN Len(data.points)
  ELSE 0

\* call c fetched results for key k from the backend
FetchedFor(c, k) ==
  /\ gpc[c] = "done" /\ KeyOf(c) = k
  /\ gresult[c].kind = "data" /\ gresult[c].via = "network"
  /\ ResultCount(gresult[c].data) > 0

\* C24: a cache entry is written only after a fetch for its key succeeded with
\* results: every entry is what a getStockData, getNewsData or getChartData
\* call for the key fetched, non-empty, at the time that call resolved; a call
\* that failed or found nothing has written none.
C24_EntriesComeFromSuccessfulFetches ==
  \A k \in DOMAIN cache :
     \E c \in GwCalls :
        /\ FetchedFor(c, k)
        /\ cache[k].data = gresult[c].data
        /\ cache[k].timestamp = gresult[c].at

\* one call fetched results, which are cached, and a call for another key
\* found nothing or failed, and its key has no entry
C24_Witness ==
  \E c, d \in GwCalls :
     /\ FetchedFor(c, KeyOf(c)) /\ KeyOf(c) \in DOMAIN cache
     /\ gpc[d] = "done" /\ gstat[d].miss /\ gstat[d].reqs > 0
     /\ ~FetchedFor(d, KeyOf(d))
     /\ KeyOf(d) \notin DOMAIN cache

\* C29: a chart request never succeeds with an empty series: the chart
\* endpoint answers with at least one point or with an error status, and
\* getChartData resolves with at least one point or rejects, and caches no
\* empty series.
C29_NoEmptyChart ==
  /\ cresp.status = 200 => Len(cresp.data) >= 1
  /\ cpc = "done" => cresp.status \in {200, 404}
  /\ \A c \in GwCalls :
        (gkind[c] = "chart" /\ gpc[c] = "done")
        => \/ gresult[c].kind = "error"
           \/ gresult[c].kind = "data" /\ Len(gresult[c].data.points) >= 1
  /\ \A k \in DOMAIN cache : Len(cache[k].data.points) >= 1

\* one chart call was rejected after the endpoint had no data for any of its
\* attempts, and another resolved with the points the endpoint sent
C29_Witness ==
  \E c, d \in GwCalls :
     /\ gkind[c] = "chart" /\ gpc[c] = "done"
     /\ gresult[c].kind = "error" /\ gstat[c].fails = DefaultRetries
     /\ gkind[d] = "chart" /\ gpc[d] = "done"
     /\ gresult[d].kind = "data" /\ gresult[d].via = "network"
     /\ gresult[d].data.points = cresp.data
     /\ ChartCacheKey(gsyms[d][1]) \in DOMAIN cache

\* high >= max(open, close) and low <= min(open, close)
Ohlc(point) ==
  /\ point.high >= point.open /\ point.high >= point.close
  /\ point.low <= point.open /\ point.low <= point.close

\* C30: every chart point has high >= max(open, close) and low <= min(open,
\* close), also for provider responses with missing open, high or low: the
\* points the chart endpoint sends, and the points getChartData resolves with.
C30_ChartPointsAreCandles ==
  /\ cresp.status = 200 => \A i \in 1..Len(cresp.data) : Ohlc(cresp.data[i])
  /\ \A c \in GwCalls :
        (gkind[c] = "chart" /\ gresult[c].kind = "data")
        => \A i \in 1..Len(gresult[c].data.points) : Ohlc(gresult[c].data.points[i])

\* delays checked, in attempts
DelayAttempts == 1..(2 * DefaultRetries)

\* what holds of a makeRateLimitedRequest run at every moment
RetryBounded(c) ==
  /\ gstat[c].reqs <= DefaultRetries
  /\ gstat[c].fails <= gstat[c].reqs
  /\ gpc[c] = "backoff"
     => /\ gstat[c].fails = gstat[c].reqs /\ gstat[c].fails < DefaultRetries
        /\ gwake[c] <= now + MsToTicks(IF 1000 * 2^(gstat[c].fails - 1) < 10000
                                         THEN 1000 * 2^(gstat[c].fails - 1) ELSE 10000)
  /\ (gpc[c] = "done" /\ gresult[c].via = "network")
     => gstat[c].reqs = gstat[c].fails + 1
  /\ (gpc[c] = "done" /\ gresult[c].via = "failed")
     => /\ gstat[c].fails = DefaultRetries /\ gstat[c].reqs = DefaultRetries
        /\ gresult[c].kind = "error"
        /\ gresult[c].data.cause = gstat[c].causes[DefaultRetries]

C32_OfflineIssuesNothing ==
  [][~isOnline => \A c \in GwCalls : /\ gstat'[c].reqs = gstat[c].reqs
                                      /\ gstat'[c].acqs = gstat[c].acqs]_vars

\* C33: the WebSocket reconnect attempts are bounded: after
\* maxReconnectAttempts closes without an open in between no connection is
\* created, not even by an online event; an open resets the attempt counter to
\* 0; the delay before the n-th reconnect is min(1000 * 2^n, 30000) ms.
C33_ReconnectsAreBounded ==
  /\ [][Len(wsConns') > Len(wsConns) => wsStat.closes < MaxReconnectAttempts]_vars
  /\ [][(\E i \in 1..Len(wsConns) : WsOpen(i)) => wsReconnectAttempts' = 0]_vars
  /\ [](\A j \in 1..Len(wsTimers) :
          wsTimers[j].delay = IF 1000 * 2^(wsTimers[j].n) < 30000
                                THEN 1000 * 2^(wsTimers[j].n) ELSE 30000)

\* five closes without an open, and a setupWebSocket() call that created
\* nothing, with the browser online
C33_Witness ==
  /\ wsStat.closes = MaxReconnectAttempts /\ wsStat.refused /\ isOnline
  /\ wsReconnectAttempts = MaxReconnectAttempts
  /\ \A i \in 1..Len(wsConns) : wsConns[i] = "closed"

\* C34: at any time at most one WebSocket of the service is open or
\* connecting.
C34_OneLiveSocket ==
  Cardinality({i \in 1..Len(wsConns) : wsConns[i] \in {"connecting", "open"}}) <= 1

\* C17: within one getStockData request, once a call to the backend has failed,
\* the backend is not called again for that request: a request with a failed
\* call has sent that one call only.
C17_NoSecondCallAfterFailure ==
  \A c \in GwCalls : gstat[c].fails >= 1 => gstat[c].reqs = 1

\* C18: every quote getStockData returns carries one of the symbols of the
\* request, on every path (network, cache, and the paths taken on failure).
C18_QuotesAreForRequestedSymbols ==
  \A c \in GwCalls :
    gresult[c].kind = "data" => SeqRange(gresult[c].data.syms) \subseteq SeqRange(gsyms[c])

\* ------------------------------------------------------------------------
\* Claims about the cache store
\* ------------------------------------------------------------------------

\* C25: getCachedData leaves the cache map unchanged for every key, whether
\* the entry is fresh, expired or absent.
C25_GetLeavesTheMapUnchanged ==
  [][(\E key \in StoreKeys : GetCachedData(key)) => cache' = cache]_vars

\* the saved entries that are stamped and younger than their own duration
Unexpired(stored, t) ==
  {k \in DOMAIN stored :
     stored[k].timestamp # 0 /\ t - stored[k].timestamp < stored[k].duration}

\* C26: after loadCacheFromStorage at start-up the in-memory cache holds
\* exactly the saved entries whose age is less than their own duration: no
\* expired entry, no entry without timestamp, and no unexpired entry left out.
C26_LoadKeepsExactlyTheUnexpired ==
  [][Restart => /\ DOMAIN cache' = Unexpired(snapshot, now)
                /\ \A k \in DOMAIN cache' : cache'[k] = snapshot[k]]_vars

\* a reload has just loaded one saved entry and left out another
C26_Witness ==
  /\ pstat.restarts > 0 /\ pstat.at = now /\ obs = Null
  /\ DOMAIN cache = Unexpired(snapshot, now)
  /\ DOMAIN cache # {}
  /\ \E k \in DOMAIN snapshot \ DOMAIN cache : snapshot[k].timestamp = 0
  /\ \E k \in DOMAIN lastSet : k \notin DOMAIN cache /\ k \in DOMAIN snapshot

C28_ReloadKeepsDataAndExpiry ==
  \A k \in DOMAIN pstat.restored :
     ( /\ lastSet[k] = pstat.restored[k]
       /\ pstat.at - lastSet[k].time < lastSet[k].duration
       /\ obs # Null /\ obs.key = k )
     => obs.value = IF obs.time - lastSet[k].time < lastSet[k].duration
                      THEN lastSet[k].data ELSE Null

\* the entry was saved, a later reload found it unexpired, and it is read back
C28_Witness ==
  \E k \in DOMAIN pstat.restored :
     /\ lastSet[k] = pstat.restored[k]
     /\ pstat.at - lastSet[k].time < lastSet[k].duration
     /\ pstat.at > lastSet[k].time
     /\ obs # Null /\ obs.key = k /\ obs.value = lastSet[k].data

\* C3: an entry stored by setCachedData(key, data, T) at time t0, with no later
\* set for the key, is returned by getCachedData(key) at every time t with
\* t - t0 < T and reported as a miss (null) at every time t with t - t0 > T.
C3_TtlRespected ==
  (obs # Null /\ obs.key \in DOMAIN lastSet)
  => LET set == lastSet[obs.key]
         age == obs.time - set.time
     IN /\ age < set.duration => obs.value = set.data
        /\ age > set.duration => obs.value = Null

\* A get after the entry's TTL has elapsed reported a miss.
C3_Witness ==
  /\ obs # Null /\ obs.key \in DOMAIN lastSet
  /\ obs.time - lastSet[obs.key].time > lastSet[obs.key].duration
  /\ obs.value = Null

\* ------------------------------------------------------------------------
\* Claims about the batch quote endpoint
\* ------------------------------------------------------------------------

Requested == SeqRange(breq.symbols)
HandlerRan == bpc = "done" /\ ~bresp.cached /\ bresp.status # 400

\* the requested symbols that had no quote when call i was made
UnsatisfiedAt(i) == SelectSeq(breq.symbols, LAMBDA sym : sym \notin bcalls[i].quoted)

\* C6: when every configured source fails for the requested symbols, the
\* response contains no quote records and its errors list has exactly one
\* entry per configured source.
C6_OneErrorPerFailedSource ==
  (HandlerRan /\ bresults = <<>>)
  => /\ bresp.data = <<>>
     /\ Len(bresp.errors) = Len(Sources(breq.source))

\* C7: when the first source returns quotes for only some of the requested
\* symbols, the next source is invoked with exactly the symbols that have no
\* quote yet, and if it succeeds for them the final result contains a quote for
\* every requested symbol.
C7_NextSourceCompletesTheBatch ==
  (/\ HandlerRan
   /\ Len(bcalls) = 2
   /\ bcalls[1].state = "returned"
   /\ bcalls[2].quoted # {}
   /\ bcalls[2].state = "returned"
   /\ SeqRange(bcalls[2].symbols) \subseteq bcalls[2].healthy)
  => /\ bcalls[2].symbols = UnsatisfiedAt(2)
     /\ \A sym \in Requested : \E i \in 1..Len(bresp.data) : bresp.data[i].symbol = sym

HasQuote(sym) == \E i \in 1..Len(bresp.data) : bresp.data[i].symbol = sym

\* C16: in a multi-symbol fetch the failure of one symbol does not keep the
\* other symbols' quotes from being returned (every symbol a source answered
\* for is in the response), and every symbol that failed is reported in the
\* errors returned with the partial results.
C16_PartialResultsWithSymbolErrors ==
  (HandlerRan /\ Len(breq.symbols) <= SourceSliceLimit)
  => /\ \A i \in 1..Len(bcalls) :
          bcalls[i].state = "returned"
          => \A sym \in SeqRange(bcalls[i].symbols) \cap bcalls[i].healthy :
               (bcalls[i].source = "upstox" => sym \in instruments) => HasQuote(sym)
     /\ \A sym \in Requested :
          ~HasQuote(sym)
          => \E j \in 1..Len(bresp.errors) : sym \in SeqRange(bresp.errors[j].symbols)

\* C22: the response cache never answers a request with a response produced
\* for other request parameters: every quote of a successful response is for a
\* symbol of the request it answers, for every request of 1 to 20 symbols.
C22_CachedResponseMatchesRequest ==
  (bpc = "done" /\ bresp.status = 200 /\ Len(breq.symbols) \in 1..MaxRequestSymbols)
  => \A i \in 1..Len(bresp.data) : bresp.data[i].symbol \in Requested

\* the source was asked for the symbol, or failed as a whole while the symbol
\* was unsatisfied
OfferedTo(source, sym) ==
  \/ \E i \in 1..Len(bcalls) :
        /\ bcalls[i].source = source
        /\ \/ bcalls[i].state = "returned" /\ sym \in bcalls[i].asked
           \/ bcalls[i].state = "threw" /\ sym \in SeqRange(bcalls[i].symbols)
  \/ \E j \in 1..Len(bresp.errors) :
        bresp.errors[j].source = source /\ sym \in SeqRange(bresp.errors[j].symbols)

\* C23: for an accepted request, a requested symbol is missing from the
\* response only if every configured source was asked for it or failed at
\* provider level while it was unsatisfied.
C23_NoSymbolDroppedUnasked ==
  HandlerRan
  => \A sym \in Requested :
       ~HasQuote(sym)
       => \A k \in 1..Len(Sources(breq.source)) : OfferedTo(Sources(breq.source)[k], sym)

\* the stored response under the key is younger than the batch route's
\* duration of two minutes
StoredAndYoung(key) ==
  key \in DOMAIN scache /\ now - scache[key].timestamp < MsToTicks(2 * 60 * 1000)

\* C35: the response cache stores a response only when its status is 200 and
\* serves a stored response only while it is younger than the route's cache
\* duration: an error response is never cached, and a request that finds no
\* young stored response reaches the handler.
C35_OnlyOkResponsesAreCached ==
  /\ [](\A key \in DOMAIN scache : scache[key].data.status = 200)
  /\ [][(bpc = "idle" /\ bpc' = "done" /\ bresp'.cached)
         => /\ StoredAndYoung(BatchUrl)
            /\ bresp' = [scache[BatchUrl].data EXCEPT !.cached = TRUE]]_vars
  /\ [][(bpc # "done" /\ bpc' = "done" /\ bresp'.status # 200) => scache' = scache]_vars
  /\ [][(bpc = "idle" /\ bpc' # "idle" /\ ~StoredAndYoung(BatchUrl))
         => ~bresp'.cached]_vars

\* a request found the stored response too old, its handler ran and answered
\* 503, and the cache still holds the old response only
C35_Witness ==
  /\ bpc = "done" /\ bresp.status = 503 /\ ~bresp.cached
  /\ scache = WarmCache
  /\ ~StoredAndYoung(BatchUrl)

ErrorsNaming(source) == {j \in 1..Len(berrors) : berrors[j].source = source}
CallsOf(source) == {j \in 1..Len(bcalls) : bcalls[j].source = source}

\* C8: a provider-level failure of a source is recorded as exactly one error
\* entry naming the source and listing the symbols remaining at that moment, the
\* source is not called again in the request, and the next source is tried; with
\* the first source failing this way and the second healthy, a request for two
\* symbols returns exactly two quotes, both from the second source, and one
\* error entry, for the first.
C8_ProviderFailureIsOneError ==
  /\ \A i \in 1..Len(bcalls) :
       bcalls[i].state = "threw"
       => /\ Cardinality(ErrorsNaming(bcalls[i].source)) = 1
          /\ \A j \in ErrorsNaming(bcalls[i].source) : berrors[j].symbols = UnsatisfiedAt(i)
          /\ Cardinality(CallsOf(bcalls[i].source)) = 1
          /\ i < Len(Sources(breq.source))
             => /\ Len(bcalls) > i
                /\ bcalls[i + 1].source # bcalls[i].source
  /\ (/\ HandlerRan
      /\ breq.source = "auto"
      /\ Len(breq.symbols) = 2
      /\ Len(bcalls) = 2
      /\ bcalls[1].state = "threw"
      /\ bcalls[2].state = "returned"
      /\ Requested \subseteq bcalls[2].healthy)
     => /\ bresp.status = 200
        /\ Len(bresp.data) = 2
        /\ \A i \in 1..Len(bresp.data) : bresp.data[i].source = "Yahoo Finance"
        /\ Len(bresp.errors) = 1
        /\ bresp.errors[1].source = "upstox"
        /\ bresp.errors[1].symbols = breq.symbols

\* The first source threw for want of a token and the second answered for both
\* symbols of the request.
C8_Witness ==
  /\ HandlerRan
  /\ breq = [symbols |-> <<"TCS", "INFY">>, source |-> "auto"]
  /\ Len(bcalls) = 2
  /\ bcalls[1].state = "threw"
  /\ bcalls[2].state = "returned"
  /\ Len(bresp.data) = 2
  /\ Len(bresp.errors) = 1

\* the priority of the sources of an 'auto' request
PriorityRank(source) == IF source = "upstox" THEN 1 ELSE 2

\* C9: within one request the sources are invoked strictly in priority order,
\* one after the other (a source starts only after the earlier one has
\* finished), and no source is invoked once every requested symbol has a quote.
C9_SourcesInOrderUntilSatisfied ==
  /\ \A i, j \in 1..Len(bcalls) :
       i < j => PriorityRank(bcalls[i].source) < PriorityRank(bcalls[j].source)
  /\ \A i \in 1..Len(bcalls) :
       /\ i < Len(bcalls) => bcalls[i].state # "running"
       /\ \E sym \in Requested : sym \notin bcalls[i].quoted

\* The first source satisfied both symbols of an 'auto' request, and the
\* second source was not invoked.
C9_Witness ==
  /\ HandlerRan
  /\ breq.source = "auto"
  /\ Len(breq.symbols) = 2
  /\ Len(bcalls) = 1
  /\ bcalls[1].source = "upstox"
  /\ bcalls[1].state = "returned"
  /\ Len(bresp.data) = 2

\* ------------------------------------------------------------------------
\* Claims about the market status classifiers
\* ------------------------------------------------------------------------

MinuteOfDay == hours * 60 + minutes
Weekend == dayOfWeek \in {0, 6}

\* What the claim says the status is: by day and minute of the day,
\* 09:15 = minute 555, 15:30 = minute 930.
ClaimedStatus ==
  IF Weekend THEN "CLOSED"
  ELSE IF MinuteOfDay >= 9 * 60 + 15 /\ MinuteOfDay <= 15 * 60 + 30 THEN "OPEN"
  ELSE IF MinuteOfDay < 9 * 60 + 15 THEN "PRE_MARKET"
  ELSE "CLOSED"

\* ------------------------------------------------------------------------
\* Claims about the displayed stock list
\* ------------------------------------------------------------------------

Started == {r \in Loads : hpc[r] # "idle"}
LatestStarted == CHOOSE r \in Started : \A d \in Started : d <= r

\* C14: when a newer load or search is started while an older one is in
\* flight, the older result is not applied when it arrives: once all requests
\* have settled, the list holds the result of the most recently started one
\* (if that one delivered a result), whatever the order of the responses.
C14_LatestRequestWins ==
  (/\ Started # {}
   /\ \A r \in Loads : hpc[r] # "inflight"
   /\ hpc[LatestStarted] = "applied")
  => stocks = LatestStarted

\* ------------------------------------------------------------------------
\* Claims about the quote records
\* ------------------------------------------------------------------------

Abs(x) == IF x < 0 THEN -x ELSE x

\* |changePercent - change / previousClose * 100| < 0.01 for the record q:
\* all three are numbers, previousClose is not 0, and the difference,
\* multiplied by 100 * |previousClose|, is below |previousClose|
PercentConsistent(q) ==
  /\ q.changePercent # NaN /\ q.change # NaN /\ q.previousClose # NaN
  /\ q.previousClose[1] # 0
  /\ Abs(q.changePercent[1] * q.previousClose[1] - q.change[1] * 10000) < Abs(q.previousClose[1])

\* C13: every quote an adapter produces, and every quote processStockData
\* passes on, has |changePercent - change / previousClose * 100| < 0.01,
\* whatever accepted response it was built from.
C13_ChangePercentConsistent ==
  /\ qquote \notin {Pending, NoQuote} => PercentConsistent(qquote)
  /\ qclient # Pending => PercentConsistent(qclient)

\* C15: a provider response that lacks a current price never yields a quote:
\* the adapter pushes no record for the symbol.
C15_NoPriceNoQuote ==
  (qquote # Pending /\ qresp.price = Missing) => qquote = NoQuote

\* C19: getMarketStatus computes its result from the current time alone: its
\* calls issue no network request and touch no cache entry.
C19_MarketStatusIsLocal ==
  /\ mreqs = 0
  /\ cache = EmptyMap

\* C10: on Saturday and Sunday the classifier returns CLOSED whatever the time;
\* on a weekday OPEN for 09:15 <= time <= 15:30, PRE_MARKET before 09:15 and
\* CLOSED after 15:30; the client's fallback classifier and the server's
\* endpoint never return anything else.
C10_MarketStatus ==
  /\ clientStatus # "none" => clientStatus = ClaimedStatus
  /\ serverStatus # "none" => serverStatus = ClaimedStatus

\* Both classifiers have answered at the opening minute of a weekday.
C10_Witness ==
  /\ dayOfWeek = 3 /\ hours = 9 /\ minutes = 15
  /\ clientStatus = "OPEN" /\ serverStatus = "OPEN"


\* ------------------------------------------------------------------------
\* Claims about the retries of loadStocks
\* ------------------------------------------------------------------------

\* a step in which a retry timer is set
RetryScheduled == Len(hretries') > Len(hretries)

\* C36: after a failed loadStocks at most 3 retries are scheduled in a row
\* (the counter stays within 0..3 and every scheduled retry raises it by one),
\* the retries wait 2 s, 4 s and 8 s, a retry is scheduled only while the
\* hook is online, and a successful load returns the counter to 0.
C36_RetriesAreBoundedAndOnline ==
  /\ [](hretryCount \in 0..MaxLoadRetries)
  /\ [][RetryScheduled
         => /\ hretryCount' = hretryCount + 1
            /\ hretries'[Len(hretries')].delay = 1000 * 2^hretryCount'
            /\ hretries'[Len(hretries')].delay \in {2000, 4000, 8000}]_vars
  /\ [][RetryScheduled => hisOnline]_vars
  /\ [][(\E r \in Loads : hkind[r] = "load" /\ hpc[r] = "inflight" /\ hpc'[r] = "applied")
         => hretryCount' = 0]_vars

\* ------------------------------------------------------------------------
\* Claims about the agreement of the market-status classifiers
\* ------------------------------------------------------------------------

Classified == {clientStatus, serverStatus, helperStatus, apiStatus} \ {"none"}

\* C37: on every day of the week and at every time of day the four
\* classifiers (the client's fallback, the server's endpoint, the helper and
\* APIService.getMarketStatus) return the same status.
C37_ClassifiersAgree ==
  /\ Cardinality(Classified) <= 1
  /\ LET d == dayOfWeek
         t == CurrentTime(hours, minutes)
     IN  /\ HelperMarketStatus(d, t) = CalculateMarketStatusFallback(d, t)
         /\ ApiMarketStatus(d, t) = CalculateMarketStatusFallback(d, t)
         /\ ServerMarketStatus(d, t) = CalculateMarketStatusFallback(d, t)

\* All four classifiers have answered one minute after the close of a weekday.
C37_Witness ==
  /\ dayOfWeek = 2 /\ hours = 15 /\ minutes = 31
  /\ clientStatus = "CLOSED" /\ serverStatus = "CLOSED"
  /\ helperStatus = "CLOSED" /\ apiStatus = "CLOSED"

\* ------------------------------------------------------------------------
\* Claims about executeTrade
\* ------------------------------------------------------------------------

\* the quantity the portfolio p holds of the symbol, under the arrays and
\* objects given (0: no holding)
HeldQuantity(p, arrays, objs, symbol) ==
  LET arr == arrays[p.holdings]
      found == {i \in 1..Len(arr) : objs[arr[i]].symbol = symbol}
  IN  IF found = {} THEN 0
      ELSE objs[arr[CHOOSE i \in found : \A k \in found : i <= k]].quantity

\* a step in which an executeTrade call returns
TradeReturns == tradeResult'.n # tradeResult.n

\* C38: after any sequence of executeTrade calls availableCash is not negative
\* and every holding of the portfolio has a quantity above 0.
C38_CashAndHoldingsStayPositive ==
  /\ portfolio.availableCash >= 0
  /\ \A i \in 1..Len(holdingArrays[portfolio.holdings]) :
       holdingObjs[holdingArrays[portfolio.holdings][i]].quantity > 0

\* C39: a buy costing more than the available cash and a sell of more shares
\* than are held (or of a stock that is not held) are rejected, and a rejected
\* trade returns success: false and leaves the portfolio, its holdings, its
\* transactions and the stored portfolio as they were.
C39_RejectedTradeChangesNothing ==
  /\ [][(TradeReturns /\ ~tradeResult'.success)
         => /\ portfolio' = portfolio
            /\ HoldingsOf(portfolio', holdingArrays', holdingObjs')
                 = HoldingsOf(portfolio, holdingArrays, holdingObjs)
            /\ holdingObjs' = holdingObjs /\ holdingArrays' = holdingArrays
            /\ storedPortfolio' = storedPortfolio]_vars
  /\ [][TradeReturns
         => LET t == tradeResult'
                held == HeldQuantity(closurePortfolio, holdingArrays, holdingObjs, t.symbol)
            IN  /\ (t.action = "buy" /\ t.price * t.quantity > closurePortfolio.availableCash)
                     => ~t.success
                /\ (t.action = "sell" /\ held < t.quantity) => ~t.success]_vars

\* After a trade that succeeded, a sell of more shares than are held has been
\* rejected.
C39_Witness ==
  /\ tradeResult.n >= 2 /\ ~tradeResult.success /\ tradeResult.action = "sell"
  /\ HeldQuantity(closurePortfolio, holdingArrays, holdingObjs, tradeResult.symbol) = 1
  /\ tradeResult.quantity = 2
  /\ storedPortfolio # NoStored /\ portfolio.transactions # <<>>

\* C40: every successful executeTrade moves availableCash by price * quantity
\* (down for a buy, up for a sell) and the held quantity of its stock by
\* quantity, from the portfolio the previous successful trade left, whichever
\* portfolio object the call captured.
C40_EveryTradeCounts ==
  [][(TradeReturns /\ tradeResult'.success)
      => LET t == tradeResult'
             sign == IF t.action = "buy" THEN 1 ELSE -1
         IN  /\ portfolio'.availableCash
                  = portfolio.availableCash - sign * t.price * t.quantity
             /\ HeldQuantity(portfolio', holdingArrays', holdingObjs', t.symbol)
                  = HeldQuantity(portfolio, holdingArrays, holdingObjs, t.symbol)
                      + sign * t.quantity]_vars

====
